---- MODULE Spec2Model ----
(***************************************************************************)
(* Room server and Ludo rule engine of dream-ludo-server.                  *)
(*                                                                         *)
(* The rule engine is src/unnamed/part_007 (game.js); the room server that *)
(* dispatches frames to it is src/unnamed/part_003 (server.js).            *)
(*                                                                         *)
(* A rule-engine function of the source mutates the gameState object it is *)
(* handed; here it is an operator from the game record g to the record     *)
(* after the call.  Display-only fields (name, message) and the two logs   *)
(* (chatMessages, turn_history) are left out of the record.                *)
(* Arrays are indexed from 0 in the source and from 1 here, so             *)
(* players[currentPlayerIndex] of the source is Current(g) below.          *)
(***************************************************************************)
EXTENDS Integers, Sequences, FiniteSets, TLC

VARIABLES
    games,        \* the registry: the set of game codes that have a room
    state,        \* game.state of the room
    clients,      \* game.clients: user ids with a registered socket
    turnTimer,    \* game.turnTimer: TRUE while the 1 s interval is installed
    wsUserId,     \* the connections whose ws.userId is set (AUTH succeeded)
    rollTimers,   \* per user: pending setTimeout(completeRoll) callbacks
    suspended,    \* movePiece calls parked at their first persistence await
    base,         \* game.state when the oldest parked call started
    invoked,      \* the handlers started since then, in start order
    rolls,        \* completed rolls so far (bounds the run)
    ticks,        \* countdown decrements so far (bounds the run)
    argPiece,     \* getNewPositionInfo applied on its own: the piece,
    argDice,      \*   the dice value,
    retInfo,      \*   and what it returned (<<>> before the call)
    startTimers,  \* pending setTimeout(startGame) callbacks of a full tournament room
    authPending,  \* connections whose AUTH frame awaits the identity service
    advanceTimers,    \* pending setTimeout(advanceTurn) callbacks of a roll without a move
    reconnectTimers,  \* game.reconnectTimers: users whose grace period is running
    getUserPending,   \* per connection: AUTH handlers awaiting the identity service
    closed4001,       \* connections on which ws.close(4001) was called (AUTH_FAILURE)
    wsClosed,         \* connections whose 'close' event was emitted
    finishTimers,     \* pending setTimeout(games.delete) callbacks of handleGameFinish
    evictTimers,      \* pending empty-room timeouts, oldest first: whether a writer
                      \*   was registered since the timeout was set
    graceTimers,      \* per user: pending grace timeouts, and whether the one
                      \*   game.reconnectTimers holds is among them
    missedCalls,      \* calls of handleMissedTurn suspended at their persistence
                      \*   await, oldest first: the seat that timed out
    strayTicks,       \* pending timerTick timeouts whose handle game.turnTimer
                      \*   no longer holds
    staleFinish       \* of finishTimers, those set for a room that has left the
                      \*   registry since

vars == <<games, state, clients, turnTimer, wsUserId, rollTimers, suspended,
          base, invoked, rolls, ticks, argPiece, argDice, retInfo,
          startTimers, authPending, advanceTimers, reconnectTimers,
          getUserPending, closed4001, wsClosed, finishTimers, evictTimers, graceTimers,
          missedCalls, strayTicks, staleFinish>>

-----------------------------------------------------------------------------
(* Bounds of the model *)

NumUsers == 3
MaxRolls == 1
MaxTicks == 1
MaxRollTimers == 1
MaxSuspended == 2
MaxWindow == 2
MaxSixRolls == 3
MaxPlayRolls == 2

Users == 1..NumUsers

-----------------------------------------------------------------------------
(* Constants of game.js *)

null == 0

TOTAL_PATH_LENGTH == 52
HOME_STRETCH_LENGTH == 6
FINISH_POSITION_START == 100
TURN_TIME_LIMIT == 30
MAX_INACTIVE_TURNS == 5

ALL_COLORS == <<"Red", "Green", "Blue", "Yellow">>
TWO_PLAYER_COLORS == <<"Green", "Blue">>

START_POSITIONS == [c \in {"Red", "Green", "Blue", "Yellow"} |->
    CASE c = "Green" -> 1 [] c = "Red" -> 14 [] c = "Yellow" -> 40 [] c = "Blue" -> 27]

\* PRE_HOME_POSITIONS with a slip: Red leaves the main path one cell late.
PRE_HOME_POSITIONS_RedLate == [c \in {"Red", "Green", "Blue", "Yellow"} |->
    CASE c = "Green" -> 51 [] c = "Red" -> 13 [] c = "Yellow" -> 38 [] c = "Blue" -> 25]

PRE_HOME_POSITIONS == [c \in {"Red", "Green", "Blue", "Yellow"} |->
    CASE c = "Green" -> 51 [] c = "Red" -> 12 [] c = "Yellow" -> 38 [] c = "Blue" -> 25]

SAFE_SPOTS == {1, 9, 14, 22, 27, 35, 40, 48}

\* ALL_COLORS.indexOf(color)
IndexOf(color) == (CHOOSE i \in 1..4 : ALL_COLORS[i] = color) - 1

-----------------------------------------------------------------------------
(* Helpers of game.js *)

createPlayer(playerId, color, isHost) ==
    [playerId |-> playerId,
     color |-> color,
     pieces |-> [i \in 1..4 |->
                   [id |-> IndexOf(color) * 4 + (i - 1), color |-> color,
                    state |-> "Home", position |-> -1]],
     isHost |-> isHost,
     hasFinished |-> FALSE,
     isRemoved |-> FALSE,
     inactiveTurns |-> 0,
     consecutiveSixes |-> 0,
     rollsWithoutSix |-> 0]

\* getNewPositionInfo with a slip: the home-stretch index is not counted from 0.
getNewPositionInfoIndexFromOne(piece, diceValue) ==
    IF piece.state = "Home" /\ diceValue = 6
    THEN [position |-> START_POSITIONS[piece.color], state |-> "Active"]
    ELSE IF piece.state = "Active" /\ piece.position >= FINISH_POSITION_START
    THEN LET newPos == piece.position + diceValue IN
         IF newPos = FINISH_POSITION_START + HOME_STRETCH_LENGTH - 1
         THEN [position |-> newPos, state |-> "Finished"]
         ELSE IF newPos < FINISH_POSITION_START + HOME_STRETCH_LENGTH
         THEN [position |-> newPos, state |-> "Active"]
         ELSE [position |-> piece.position, state |-> piece.state]
    ELSE IF piece.state = "Active"
    THEN LET preHomePos == PRE_HOME_POSITIONS[piece.color]
             distToPreHome == (preHomePos - piece.position + TOTAL_PATH_LENGTH)
                                  % TOTAL_PATH_LENGTH
             homeStretchPos == diceValue - distToPreHome
         IN IF diceValue > distToPreHome
            THEN IF homeStretchPos < HOME_STRETCH_LENGTH
                 THEN [position |-> FINISH_POSITION_START + homeStretchPos,
                       state |-> IF homeStretchPos = HOME_STRETCH_LENGTH - 1
                                 THEN "Finished" ELSE "Active"]
                 ELSE [position |-> piece.position, state |-> piece.state]
            ELSE [position |-> ((piece.position - 1 + diceValue) % TOTAL_PATH_LENGTH) + 1,
                  state |-> "Active"]
    ELSE [position |-> piece.position, state |-> piece.state]

getNewPositionInfo(piece, diceValue) ==
    IF piece.state = "Home" /\ diceValue = 6
    THEN [position |-> START_POSITIONS[piece.color], state |-> "Active"]
    ELSE IF piece.state = "Active" /\ piece.position >= FINISH_POSITION_START
    THEN LET newPos == piece.position + diceValue IN
         IF newPos = FINISH_POSITION_START + HOME_STRETCH_LENGTH - 1
         THEN [position |-> newPos, state |-> "Finished"]
         ELSE IF newPos < FINISH_POSITION_START + HOME_STRETCH_LENGTH
         THEN [position |-> newPos, state |-> "Active"]
         ELSE [position |-> piece.position, state |-> piece.state]
    ELSE IF piece.state = "Active"
    THEN LET preHomePos == PRE_HOME_POSITIONS[piece.color]
             distToPreHome == (preHomePos - piece.position + TOTAL_PATH_LENGTH)
                                  % TOTAL_PATH_LENGTH
             homeStretchPos == diceValue - distToPreHome - 1
         IN IF diceValue > distToPreHome
            THEN IF homeStretchPos < HOME_STRETCH_LENGTH
                 THEN [position |-> FINISH_POSITION_START + homeStretchPos,
                       state |-> IF homeStretchPos = HOME_STRETCH_LENGTH - 1
                                 THEN "Finished" ELSE "Active"]
                 ELSE [position |-> piece.position, state |-> piece.state]
            ELSE [position |-> ((piece.position - 1 + diceValue) % TOTAL_PATH_LENGTH) + 1,
                  state |-> "Active"]
    ELSE [position |-> piece.position, state |-> piece.state]

\* The source returns the ids as an array in piece order; only membership and
\* emptiness of it are ever read, so it is a set here.
calculateMovablePieces(player, diceValue) ==
    {player.pieces[i].id : i \in
        {k \in 1..4 :
            LET info == getNewPositionInfo(player.pieces[k], diceValue) IN
            info.state # player.pieces[k].state \/ info.position # player.pieces[k].position}}

Skipped(p) == p.hasFinished \/ p.isRemoved

\* The while loop of advanceTurn: nextIndex (0-based) after the loop.
RECURSIVE SeekNext(_, _, _)
SeekNext(g, nextIndex, checkedAll) ==
    IF Skipped(g.players[nextIndex + 1]) /\ checkedAll < Len(g.players)
    THEN SeekNext(g, (nextIndex + 1) % Len(g.players), checkedAll + 1)
    ELSE nextIndex

ActivePlayers(g) == {i \in 1..Len(g.players) : ~Skipped(g.players[i])}

\* advanceTurn with a slip: the while loop is left out, so the seat goes to the
\* next player whether active or not.
advanceTurnNoSkip(g) ==
    IF g.gameStatus # "Playing" THEN g
    ELSE LET nextIndex == (g.currentPlayerIndex + 1) % Len(g.players) IN
         IF ActivePlayers(g) = {} /\ Len(g.players) > 1
         THEN [g EXCEPT !.gameStatus = "Finished", !.winner = null]
         ELSE [g EXCEPT !.players[nextIndex + 1].consecutiveSixes = 0,
                        !.currentPlayerIndex = nextIndex,
                        !.diceValue = null,
                        !.isRolling = FALSE,
                        !.movablePieces = {},
                        !.turnTimeLeft = TURN_TIME_LIMIT]

advanceTurn(g) ==
    IF g.gameStatus # "Playing" THEN g
    ELSE LET nextIndex == SeekNext(g, (g.currentPlayerIndex + 1) % Len(g.players), 0) IN
         IF ActivePlayers(g) = {} /\ Len(g.players) > 1
         THEN [g EXCEPT !.gameStatus = "Finished", !.winner = null]
         ELSE [g EXCEPT !.players[nextIndex + 1].consecutiveSixes = 0,
                        !.currentPlayerIndex = nextIndex,
                        !.diceValue = null,
                        !.isRolling = FALSE,
                        !.movablePieces = {},
                        !.turnTimeLeft = TURN_TIME_LIMIT]

-----------------------------------------------------------------------------
(* Core game logic of game.js *)

createNewGame(hostId, type, max_players, tournamentId) ==
    [hostId |-> hostId,
     type |-> type,
     max_players |-> max_players,
     tournamentId |-> tournamentId,
     players |-> <<>>,
     playerOrder |-> <<>>,
     currentPlayerIndex |-> 0,
     diceValue |-> null,
     gameStatus |-> "Setup",
     winner |-> null,
     movablePieces |-> {},
     isRolling |-> FALSE,
     turnTimeLeft |-> TURN_TIME_LIMIT]

HasPlayer(g, playerId) == \E i \in 1..Len(g.players) : g.players[i].playerId = playerId

\* players.find(p => p.playerId === playerId): the 1-based index of the first match
FindPlayer(g, playerId) ==
    CHOOSE i \in 1..Len(g.players) :
        /\ g.players[i].playerId = playerId
        /\ \A j \in 1..(i - 1) : g.players[j].playerId # playerId

\* addPlayer with a slip: a seat is given whatever the status of the game.
addPlayerAnytime(g, playerId) ==
    IF Len(g.players) >= g.max_players THEN g
    ELSE IF HasPlayer(g, playerId) THEN g
    ELSE LET isHost == Len(g.players) = 0
             color == IF g.max_players = 2
                      THEN TWO_PLAYER_COLORS[Len(g.players) + 1]
                      ELSE ALL_COLORS[Len(g.players) + 1]
         IN [g EXCEPT !.players = Append(g.players, createPlayer(playerId, color, isHost))]

addPlayer(g, playerId) ==
    IF g.gameStatus # "Setup" THEN g
    ELSE IF Len(g.players) >= g.max_players THEN g
    ELSE IF HasPlayer(g, playerId) THEN g
    ELSE LET isHost == Len(g.players) = 0
             color == IF g.max_players = 2
                      THEN TWO_PLAYER_COLORS[Len(g.players) + 1]
                      ELSE ALL_COLORS[Len(g.players) + 1]
         IN [g EXCEPT !.players = Append(g.players, createPlayer(playerId, color, isHost))]

\* requestingPlayerId is null when the server starts the game itself.
startGame(g, requestingPlayerId) ==
    IF requestingPlayerId # null /\ g.hostId # requestingPlayerId THEN g
    ELSE IF g.gameStatus # "Setup" \/ Len(g.players) < 2 THEN g
    ELSE [g EXCEPT !.gameStatus = "Playing",
                   !.playerOrder = [i \in 1..Len(g.players) |-> g.players[i].color],
                   !.currentPlayerIndex = 0,
                   !.turnTimeLeft = TURN_TIME_LIMIT]

\* players[currentPlayerIndex]; read only where the array is not empty
Current(g) == g.players[g.currentPlayerIndex + 1]

\* With no player seated players[currentPlayerIndex] is undefined and the source
\* throws on its first field access; the handler's catch leaves the game as it was.
initiateRoll(g, playerId) ==
    IF Len(g.players) = 0 THEN g
    ELSE IF Current(g).playerId # playerId \/ g.diceValue # null \/ g.isRolling THEN g
    ELSE [g EXCEPT !.isRolling = TRUE]

AllPiecesHome(player) == \A i \in 1..4 : player.pieces[i].state = "Home"

RollAccepted(g, playerId) ==
    /\ Len(g.players) > 0
    /\ Current(g).playerId = playerId
    /\ g.isRolling

\* RolledValue with a slip: the 6 is forced one failed roll later.
RolledValueOneLate(g, random) ==
    IF AllPiecesHome(Current(g)) /\ Current(g).rollsWithoutSix > 4 THEN 6 ELSE random

\* random is the value of Math.floor(Math.random() * 6) + 1
RolledValue(g, random) ==
    IF AllPiecesHome(Current(g)) /\ Current(g).rollsWithoutSix >= 4 THEN 6 ELSE random

completeRoll(g, playerId, random) ==
    IF ~RollAccepted(g, playerId) THEN g
    ELSE LET c == g.currentPlayerIndex + 1
             allPiecesHome == AllPiecesHome(g.players[c])
             diceValue == RolledValue(g, random)
             g1 == [g EXCEPT !.players[c].inactiveTurns = 0,
                             !.diceValue = diceValue,
                             !.isRolling = FALSE]
             g2 == IF diceValue = 6
                   THEN [g1 EXCEPT !.players[c].rollsWithoutSix = 0,
                                   !.players[c].consecutiveSixes = @ + 1]
                   ELSE [g1 EXCEPT !.players[c].rollsWithoutSix =
                                        IF allPiecesHome THEN @ + 1 ELSE @,
                                   !.players[c].consecutiveSixes = 0]
         IN IF g2.players[c].consecutiveSixes = 3
            THEN advanceTurn(g2)
            ELSE [g2 EXCEPT !.movablePieces = calculateMovablePieces(g2.players[c], diceValue)]

\* What completeRoll returns: true when the turn is over without a move.
completeRollResult(g, playerId, random) ==
    IF ~RollAccepted(g, playerId) THEN FALSE
    ELSE LET after == completeRoll(g, playerId, random)
             sixes == IF RolledValue(g, random) = 6
                      THEN Current(g).consecutiveSixes + 1 ELSE 0
         IN sixes = 3 \/ after.movablePieces = {}

MoveAccepted(g, playerId, pieceId) ==
    /\ Len(g.players) > 0
    /\ Current(g).playerId = playerId
    /\ pieceId \in g.movablePieces

OwnsPiece(player, pieceId) == \E k \in 1..4 : player.pieces[k].id = pieceId

PieceSlot(player, pieceId) == CHOOSE k \in 1..4 : player.pieces[k].id = pieceId

\* movePiece up to its first await (game.js 308-320): the checks and the move
\* of the piece itself.
movePieceBegin(g, playerId, pieceId) ==
    IF ~MoveAccepted(g, playerId, pieceId) THEN g
    ELSE LET c == g.currentPlayerIndex + 1
             g1 == [g EXCEPT !.players[c].inactiveTurns = 0]
         IN IF ~OwnsPiece(g.players[c], pieceId) THEN g1
            ELSE LET k == PieceSlot(g.players[c], pieceId)
                     info == getNewPositionInfo(g.players[c].pieces[k], g.diceValue)
                 IN [g1 EXCEPT !.players[c].pieces[k].position = info.position,
                               !.players[c].pieces[k].state = info.state]

\* CapturePieces with a slip: the captured piece is marked Home but keeps its cell.
CapturePiecesKeepCell(players, color, newPos, newState) ==
    IF newState = "Active" /\ newPos < FINISH_POSITION_START /\ newPos \notin SAFE_SPOTS
    THEN [i \in 1..Len(players) |->
            IF players[i].color = color THEN players[i]
            ELSE [players[i] EXCEPT !.pieces = [k \in 1..4 |->
                    IF players[i].pieces[k].position = newPos
                    THEN [players[i].pieces[k] EXCEPT !.state = "Home"]
                    ELSE players[i].pieces[k]]]]
    ELSE players

\* CapturePieces with a slip: the loop stops at the first piece it captures.
CapturePiecesFirstOnly(players, color, newPos, newState) ==
    IF newState = "Active" /\ newPos < FINISH_POSITION_START /\ newPos \notin SAFE_SPOTS
    THEN LET hit == {<<i, k>> \in (1..Len(players)) \X (1..4) :
                        players[i].color # color /\ players[i].pieces[k].position = newPos}
             first == CHOOSE h \in hit : \A o \in hit :
                        h[1] < o[1] \/ (h[1] = o[1] /\ h[2] <= o[2])
         IN IF hit = {} THEN players
            ELSE [players EXCEPT ![first[1]].pieces[first[2]].state = "Home",
                                 ![first[1]].pieces[first[2]].position = -1]
    ELSE players

\* CapturePieces with a slip: the safe spots are not exempted.
CapturePiecesOnSafeSpots(players, color, newPos, newState) ==
    IF newState = "Active" /\ newPos < FINISH_POSITION_START
    THEN [i \in 1..Len(players) |->
            IF players[i].color = color THEN players[i]
            ELSE [players[i] EXCEPT !.pieces = [k \in 1..4 |->
                    IF players[i].pieces[k].position = newPos
                    THEN [players[i].pieces[k] EXCEPT !.state = "Home", !.position = -1]
                    ELSE players[i].pieces[k]]]]
    ELSE players

\* The capture loop: every piece of another colour standing on newPos goes Home.
CapturePieces(players, color, newPos, newState) ==
    IF newState = "Active" /\ newPos < FINISH_POSITION_START /\ newPos \notin SAFE_SPOTS
    THEN [i \in 1..Len(players) |->
            IF players[i].color = color THEN players[i]
            ELSE [players[i] EXCEPT !.pieces = [k \in 1..4 |->
                    IF players[i].pieces[k].position = newPos
                    THEN [players[i].pieces[k] EXCEPT !.state = "Home", !.position = -1]
                    ELSE players[i].pieces[k]]]]
    ELSE players

\* The extra-turn branch.  The source clears diceValue and only then asks whether
\* it is not 6, so the counter is reset on every extra turn.
ExtraTurn(g, c) ==
    LET g1 == [g EXCEPT !.diceValue = null, !.movablePieces = {}, !.isRolling = FALSE]
        g2 == IF g1.diceValue # 6
              THEN [g1 EXCEPT !.players[c].consecutiveSixes = 0] ELSE g1
    IN [g2 EXCEPT !.turnTimeLeft = TURN_TIME_LIMIT]

\* movePiece after its first await (game.js 322-375).  c, newPos and newState
\* are the call's locals: currentPlayer (as an index), and what the piece moved to.
movePieceRest(g, c, newPos, newState) ==
    LET after == CapturePieces(g.players, g.players[c].color, newPos, newState)
        capturedPiece == after # g.players
        pieceFinished == newState = "Finished"
        g1 == [g EXCEPT !.players = after]
    IN IF \A k \in 1..4 : g1.players[c].pieces[k].state = "Finished"
       THEN [g1 EXCEPT !.players[c].hasFinished = TRUE,
                       !.winner = g1.players[c].playerId,
                       !.gameStatus = "Finished"]
       ELSE IF g1.diceValue = 6 \/ capturedPiece \/ pieceFinished
       THEN ExtraTurn(g1, c)
       ELSE advanceTurn(g1)

movePiece(g, playerId, pieceId) ==
    IF ~MoveAccepted(g, playerId, pieceId) THEN g
    ELSE IF ~OwnsPiece(Current(g), pieceId) THEN movePieceBegin(g, playerId, pieceId)
    ELSE LET c == g.currentPlayerIndex + 1
             k == PieceSlot(g.players[c], pieceId)
             info == getNewPositionInfo(g.players[c].pieces[k], g.diceValue)
         IN movePieceRest(movePieceBegin(g, playerId, pieceId), c, info.position, info.state)

\* leaveGame with a slip: the seat advances whoever left.
leaveGameAlwaysAdvance(g, playerId) ==
    IF ~HasPlayer(g, playerId) THEN g
    ELSE LET i == FindPlayer(g, playerId) IN
         IF g.players[i].isRemoved THEN g
         ELSE LET g1 == [g EXCEPT !.players[i].isRemoved = TRUE]
                  activePlayers == ActivePlayers(g1)
              IN IF Cardinality(activePlayers) = 1
                 THEN [g1 EXCEPT !.winner = g1.players[CHOOSE w \in activePlayers : TRUE].playerId,
                                 !.gameStatus = "Finished"]
                 ELSE advanceTurn(g1)

leaveGame(g, playerId) ==
    IF ~HasPlayer(g, playerId) THEN g
    ELSE LET i == FindPlayer(g, playerId) IN
         IF g.players[i].isRemoved THEN g
         ELSE LET g1 == [g EXCEPT !.players[i].isRemoved = TRUE]
                  activePlayers == ActivePlayers(g1)
              IN IF Cardinality(activePlayers) = 1
                 THEN [g1 EXCEPT !.winner = g1.players[CHOOSE w \in activePlayers : TRUE].playerId,
                                 !.gameStatus = "Finished"]
                 ELSE IF Current(g1).playerId = playerId
                 THEN advanceTurn(g1)
                 ELSE g1

\* The turn log with a slip: a player already removed is logged as leaving again.
leaveGameLoggedAgain(g, playerId) ==
    IF ~HasPlayer(g, playerId) THEN <<>>
    ELSE LET i == FindPlayer(g, playerId)
             g1 == [g EXCEPT !.players[i].isRemoved = TRUE]
             activePlayers == ActivePlayers(g1)
         IN IF Cardinality(activePlayers) = 1
            THEN <<"left the game.", "won because opponent left.">>
            ELSE IF /\ Current(g1).playerId = playerId
                    /\ g1.gameStatus = "Playing"
                    /\ activePlayers = {} /\ Len(g1.players) > 1
            THEN <<"left the game.", "Game finished. No winner.">>
            ELSE <<"left the game.">>

\* What the call pushes on turn_history (game.js 398, 407, and 154 in advanceTurn).
leaveGameLogged(g, playerId) ==
    IF ~HasPlayer(g, playerId) THEN <<>>
    ELSE LET i == FindPlayer(g, playerId) IN
         IF g.players[i].isRemoved THEN <<>>
         ELSE LET g1 == [g EXCEPT !.players[i].isRemoved = TRUE]
                  activePlayers == ActivePlayers(g1)
              IN IF Cardinality(activePlayers) = 1
                 THEN <<"left the game.", "won because opponent left.">>
                 ELSE IF /\ Current(g1).playerId = playerId
                         /\ g1.gameStatus = "Playing"
                         /\ activePlayers = {} /\ Len(g1.players) > 1
                 THEN <<"left the game.", "Game finished. No winner.">>
                 ELSE <<"left the game.">>

\* Whether sendChatMessage pushes the text on chatMessages: it looks the sender
\* up among the players and asks nothing else of it.
sendChatMessagePushed(g, playerId) == HasPlayer(g, playerId)

\* handleMissedTurn with a slip: the forfeiture comes one missed turn late.
handleMissedTurnOneLate(g) ==
    IF Len(g.players) = 0 \/ g.gameStatus # "Playing" THEN g
    ELSE LET c == g.currentPlayerIndex + 1
             g1 == [g EXCEPT !.players[c].inactiveTurns = @ + 1]
         IN IF g1.players[c].inactiveTurns > MAX_INACTIVE_TURNS
            THEN leaveGame(g1, g1.players[c].playerId)
            ELSE advanceTurn(g1)

handleMissedTurn(g) ==
    IF Len(g.players) = 0 \/ g.gameStatus # "Playing" THEN g
    ELSE LET c == g.currentPlayerIndex + 1
             g1 == [g EXCEPT !.players[c].inactiveTurns = @ + 1]
         IN IF g1.players[c].inactiveTurns >= MAX_INACTIVE_TURNS
            THEN leaveGame(g1, g1.players[c].playerId)
            ELSE advanceTurn(g1)

-----------------------------------------------------------------------------
(* The room server (server.js): one room, one connection per user *)

GameCode == "ROOM"

NoTournament == 0
TournamentId == 1

\* What the tournaments lookup of the AUTH handler can decide for a new room:
\* no row (a manual room of two), or a row with its max_players.
RoomOptions ==
    {[type |-> "manual", max_players |-> 2, tournamentId |-> NoTournament],
     [type |-> "tournament", max_players |-> 2, tournamentId |-> TournamentId],
     [type |-> "tournament", max_players |-> 4, tournamentId |-> TournamentId]}

PieceIds == 0..15

\* The values Math.floor(Math.random() * 6) + 1 takes
Faces == 1..6

\* Before the first AUTH there is no room; state then holds this placeholder.
NoGame == createNewGame(null, "manual", 2, NoTournament)

NoPiece == [id |-> 0, color |-> "Red", state |-> "Home", position |-> -1]

ServerStart ==
    /\ games = {}
    /\ state = NoGame
    /\ clients = {}
    /\ turnTimer = FALSE
    /\ wsUserId = {}
    /\ rollTimers = [u \in Users |-> 0]

\* No AUTH handler is running, no socket was closed by the server and no
\* removal, eviction or grace timeout is pending.
SessionStart ==
    /\ getUserPending = [c \in 1..NumUsers |-> 0]
    /\ closed4001 = {}
    /\ wsClosed = {}
    /\ finishTimers = 0
    /\ evictTimers = <<>>
    /\ graceTimers = [u \in 1..NumUsers |-> [pending |-> 0, held |-> FALSE]]
    /\ missedCalls = <<>>
    /\ strayTicks = 0
    /\ staleFinish = 0

AuxStart ==
    /\ suspended = <<>>
    /\ base = NoGame
    /\ invoked = <<>>
    /\ rolls = 0
    /\ ticks = 0
    /\ argPiece = NoPiece
    /\ argDice = 1
    /\ retInfo = <<>>
    /\ startTimers = 0
    /\ authPending = {}
    /\ advanceTimers = 0
    /\ reconnectTimers = {}
    /\ SessionStart

asyncVars == <<suspended, base, invoked>>
fnVars == <<argPiece, argDice, retInfo>>
lobbyVars == <<startTimers, authPending, advanceTimers, reconnectTimers>>
tickVars == <<missedCalls, strayTicks>>
sessionVars == <<getUserPending, closed4001, wsClosed, finishTimers, evictTimers, graceTimers,
                 tickVars, staleFinish>>
socketVars == <<getUserPending, closed4001, wsClosed, evictTimers, graceTimers, tickVars,
                staleFinish>>

\* ws.on('message'), action AUTH with a token the identity service accepts.
Auth(u) ==
    /\ u \notin wsUserId
    /\ wsUserId' = wsUserId \cup {u}
    /\ \E o \in RoomOptions :
         LET isNew == games = {}
             g0 == IF isNew THEN createNewGame(u, o.type, o.max_players, o.tournamentId)
                   ELSE state
         IN /\ games' = {GameCode}
            /\ clients' = (IF isNew THEN {} ELSE clients) \cup {u}
            /\ turnTimer' = IF isNew THEN FALSE ELSE turnTimer
            /\ state' = IF ~HasPlayer(g0, u) THEN addPlayer(g0, u) ELSE g0
    /\ UNCHANGED <<rollTimers, rolls, ticks, asyncVars, fnVars, sessionVars, lobbyVars>>

\* Every other frame passes the same two gates first.
Dispatch(u) == u \in wsUserId /\ GameCode \in games

\* case 'START_GAME': startGame, then startGameLoop whatever startGame did.
StartGame(u) ==
    /\ Dispatch(u)
    /\ state' = startGame(state, u)
    /\ turnTimer' = TRUE
    /\ UNCHANGED <<games, clients, wsUserId, rollTimers, rolls, ticks, asyncVars, fnVars,
                   sessionVars, lobbyVars>>

\* The number of completeRoll callbacks not yet run.
RECURSIVE SumTimers(_)
SumTimers(n) == IF n = 0 THEN 0 ELSE rollTimers[n] + SumTimers(n - 1)
PendingRolls == SumTimers(NumUsers)

\* case 'ROLL_DICE': initiateRoll, then the 500 ms timer is set whether or not
\* the roll was accepted.
RollDice(u, maxRolls) ==
    /\ Dispatch(u)
    /\ Len(state.players) > 0
    /\ rolls < maxRolls
    /\ PendingRolls < MaxRollTimers
    /\ state' = initiateRoll(state, u)
    /\ rollTimers' = [rollTimers EXCEPT ![u] = @ + 1]
    /\ UNCHANGED <<games, clients, turnTimer, wsUserId, rolls, ticks, asyncVars, fnVars,
                   sessionVars, lobbyVars>>

\* The 500 ms callback of ROLL_DICE.  completeRoll returns a boolean, which is
\* neither 'PENALTY' nor 'NO_MOVES', so the callback schedules nothing more.
CompleteRollTimer(u, faces) ==
    /\ rollTimers[u] > 0
    /\ rollTimers' = [rollTimers EXCEPT ![u] = @ - 1]
    /\ \E random \in faces : state' = completeRoll(state, u, random)
    /\ rolls' = IF RollAccepted(state, u) THEN rolls + 1 ELSE rolls
    /\ UNCHANGED <<games, clients, turnTimer, wsUserId, ticks, asyncVars, fnVars,
                   sessionVars, lobbyVars>>

\* case 'MOVE_PIECE'
MovePiece(u, pieceId) ==
    /\ Dispatch(u)
    /\ state' = movePiece(state, u, pieceId)
    /\ UNCHANGED <<games, clients, turnTimer, wsUserId, rollTimers, rolls, ticks,
                   asyncVars, fnVars, sessionVars, lobbyVars>>

\* case 'LEAVE_GAME'
LeaveGame(u) ==
    /\ Dispatch(u)
    /\ state' = leaveGame(state, u)
    /\ UNCHANGED <<games, clients, turnTimer, wsUserId, rollTimers, rolls, ticks,
                   asyncVars, fnVars, sessionVars, lobbyVars>>

\* The setInterval callback of startGameLoop.
LoopCounts(g) == g.gameStatus = "Playing" /\ g.diceValue = null /\ ~g.isRolling

GameLoopStop ==
    /\ turnTimer
    /\ state.gameStatus = "Finished"
    /\ turnTimer' = FALSE
    /\ UNCHANGED <<games, state, clients, wsUserId, rollTimers, rolls, ticks, asyncVars, fnVars,
                   sessionVars, lobbyVars>>

GameLoopCountdown ==
    /\ turnTimer
    /\ LoopCounts(state)
    /\ state.turnTimeLeft > 0
    /\ ticks < MaxTicks
    /\ state' = [state EXCEPT !.turnTimeLeft = @ - 1]
    /\ ticks' = ticks + 1
    /\ UNCHANGED <<games, clients, turnTimer, wsUserId, rollTimers, rolls, asyncVars, fnVars,
                   sessionVars, lobbyVars>>

GameLoopMissedTurn ==
    /\ turnTimer
    /\ LoopCounts(state)
    /\ state.turnTimeLeft <= 0
    /\ state' = handleMissedTurn(state)
    /\ UNCHANGED <<games, clients, turnTimer, wsUserId, rollTimers, rolls, ticks,
                   asyncVars, fnVars, sessionVars, lobbyVars>>

-----------------------------------------------------------------------------
(* Rooms in mid-game.                                                      *)
(*                                                                         *)
(* A piece needs 57 steps to finish, so no exhaustive search from the      *)
(* empty room gets near a capture, a home stretch or a win.  Next to the   *)
(* empty room, a run may therefore start from one of three rooms in play.  *)
(* Each is a position ordinary play reaches: every piece stands on a cell  *)
(* of its own colour's route, no unsafe cell is shared by two colours, it  *)
(* is the start of a seat (no dice, full or nearly spent clock), and the   *)
(* loop of START_GAME is running.                                          *)
(***************************************************************************)

\* The room after the users 1..n sent AUTH in that order and user 1 sent START_GAME.
RECURSIVE Seated(_, _)
Seated(o, n) ==
    IF n = 0 THEN createNewGame(1, o.type, o.max_players, o.tournamentId)
    ELSE addPlayer(Seated(o, n - 1), n)

\* layout[i][k] = <<state, position>> of piece k of seat i
InPlay(o, layout) ==
    LET g == startGame(Seated(o, Len(layout)), 1) IN
    [g EXCEPT !.players = [i \in 1..Len(layout) |->
        [g.players[i] EXCEPT !.pieces = [k \in 1..4 |->
            [g.players[i].pieces[k] EXCEPT !.state = layout[i][k][1],
                                           !.position = layout[i][k][2]]]]]]

H == <<"Home", -1>>
F == <<"Finished", 105>>
A(position) == <<"Active", position>>

\* Green (user 1) to play; Blue holds the unsafe cell 13 twice and the safe cell 14.
BoardCapture ==
    InPlay([type |-> "manual", max_players |-> 2, tournamentId |-> NoTournament],
           << <<A(10), A(50), A(103), F>>,
              <<A(13), A(13), A(14), H>> >>)

\* Green (user 1) to play, one step from winning; a tournament room.
BoardWin ==
    InPlay([type |-> "tournament", max_players |-> 2, tournamentId |-> TournamentId],
           << <<F, F, F, A(104)>>,
              <<A(30), H, H, H>> >>)

\* Red (user 1) to play in a tournament room of four with three seated; Red has
\* let four turns pass and this one has a second left.
BoardThree ==
    LET g == InPlay([type |-> "tournament", max_players |-> 4, tournamentId |-> TournamentId],
                    << <<A(20), H, H, H>>,
                       <<A(23), A(49), H, H>>,
                       <<A(24), H, H, H>> >>)
    IN [g EXCEPT !.players[1].inactiveTurns = 4, !.turnTimeLeft = 1]

Boards == {BoardCapture, BoardWin, BoardThree}

InPlayStart ==
    \E b \in Boards :
        /\ games = {GameCode}
        /\ state = b
        /\ clients = {b.players[i].playerId : i \in 1..Len(b.players)}
        /\ wsUserId = {b.players[i].playerId : i \in 1..Len(b.players)}
        /\ turnTimer = TRUE
        /\ rollTimers = [u \in Users |-> 0]

Init == (ServerStart \/ InPlayStart) /\ AuxStart

Next ==
    \/ \E u \in Users : Auth(u)
    \/ \E u \in Users : StartGame(u)
    \/ \E u \in Users : RollDice(u, MaxRolls)
    \/ \E u \in Users : CompleteRollTimer(u, Faces)
    \/ \E u \in Users, pieceId \in PieceIds : MovePiece(u, pieceId)
    \/ \E u \in Users : LeaveGame(u)
    \/ GameLoopStop
    \/ GameLoopCountdown
    \/ GameLoopMissedTurn

Spec == Init /\ [][Next]_vars

\* A room in play, followed over more rolls: the dice, the moves and the turn timer
\* (which removes a player after MAX_INACTIVE_TURNS missed turns).
InitPlay == InPlayStart /\ AuxStart

NextPlay ==
    \/ \E u \in Users : RollDice(u, MaxPlayRolls)
    \/ \E u \in Users : CompleteRollTimer(u, Faces)
    \/ \E u \in Users, pieceId \in PieceIds : MovePiece(u, pieceId)
    \/ GameLoopStop
    \/ GameLoopCountdown
    \/ GameLoopMissedTurn

SpecPlay == InitPlay /\ [][NextPlay]_vars

-----------------------------------------------------------------------------
(* Properties of the game record between commands *)

Seats(g) == 1..Len(g.players)

PieceAt(g, i, k) == g.players[i].pieces[k]

MainPath == 1..TOTAL_PATH_LENGTH

\* C2: whenever the game is Playing, the player at currentPlayerIndex has neither
\* finished nor been removed.
C2_CurrentSeatIsActive ==
    state.gameStatus = "Playing" =>
        ~Current(state).hasFinished /\ ~Current(state).isRemoved

\* C3: a dice value is shown only while the game is Playing and no roll is in flight.
C3_DiceOnlyWhilePlaying ==
    state.diceValue # null => ~state.isRolling /\ state.gameStatus = "Playing"

\* C4: a piece is Home exactly at position -1 and Finished exactly at position 105,
\* and an Active piece stands on the main path 1..52 or on the home stretch 100..104.
C4_PieceStateMatchesPosition ==
    \A i \in Seats(state) : \A k \in 1..4 :
        LET piece == PieceAt(state, i, k) IN
        /\ piece.state = "Home" <=> piece.position = -1
        /\ piece.state = "Finished" <=> piece.position = 105
        /\ piece.state = "Active" => piece.position \in MainPath \cup 100..104

\* A move took a piece off the main path into the home stretch (no room in play
\* starts with a piece on 101).
C4_Witness ==
    /\ rolls = 1
    /\ \E i \in Seats(state) : \E k \in 1..4 :
         PieceAt(state, i, k).state = "Active" /\ PieceAt(state, i, k).position = 101

ColoursOn(g, cell) ==
    {g.players[i].color : i \in {j \in Seats(g) : \E k \in 1..4 : PieceAt(g, j, k).position = cell}}

C6_MovableMatchesDice ==
    IF state.diceValue # null
    THEN Len(state.players) > 0
         /\ state.movablePieces = calculateMovablePieces(Current(state), state.diceValue)
    ELSE state.movablePieces = {}

-----------------------------------------------------------------------------
(* Properties of one movePiece call *)

\* The slots of the current player's pieces that a step moved.  In Spec only an
\* accepted movePiece changes a piece of the player to play.
MovedSlots ==
    IF Len(state.players) = 0 \/ Len(state'.players) # Len(state.players) THEN {}
    ELSE {k \in 1..4 : PieceAt(state', state.currentPlayerIndex + 1, k)
                         # PieceAt(state, state.currentPlayerIndex + 1, k)}

Opponents == Seats(state) \ {state.currentPlayerIndex + 1}

\* C8: landing on an unsafe main-path cell sends every opposing piece on that cell
\* Home and changes no other opposing piece; landing anywhere else changes none.
C8_CaptureExactlyOnLanding ==
    [][\A slot \in MovedSlots :
         LET landed == PieceAt(state', state.currentPlayerIndex + 1, slot)
             capturing == /\ landed.state = "Active"
                          /\ landed.position \in MainPath \ SAFE_SPOTS
         IN \A j \in Opponents : \A m \in 1..4 :
              PieceAt(state', j, m) =
                  IF capturing /\ PieceAt(state, j, m).position = landed.position
                  THEN [PieceAt(state, j, m) EXCEPT !.state = "Home", !.position = -1]
                  ELSE PieceAt(state, j, m)
      ]_vars

\* Green moved from 10 onto the unsafe cell 13 and both Blue pieces there went Home.
C8_Witness ==
    /\ rolls = 1
    /\ Len(state.players) = 2
    /\ PieceAt(state, 1, 1).position = 13
    /\ PieceAt(state, 2, 1).state = "Home" /\ PieceAt(state, 2, 1).position = -1
    /\ PieceAt(state, 2, 2).state = "Home" /\ PieceAt(state, 2, 2).position = -1
    /\ PieceAt(state, 2, 3).position = 14

\* The seat after the current one, skipping finished and removed players
\* (0-based, as currentPlayerIndex).
NextActiveSeat(g) ==
    LET n == Len(g.players)
        ahead == {d \in 1..n : ~Skipped(g.players[((g.currentPlayerIndex + d) % n) + 1])}
    IN IF ahead = {} THEN g.currentPlayerIndex
       ELSE (g.currentPlayerIndex + (CHOOSE d \in ahead : \A e \in ahead : d <= e)) % n

\* C9: after an accepted movePiece that does not end the game, the player keeps the
\* seat (same currentPlayerIndex, no dice, nothing movable, a full clock) exactly
\* when the dice was 6, a piece was captured or the moved piece finished; otherwise
\* the seat goes to the next active player.
C9_ExtraTurnIffSixCaptureOrFinish ==
    [][\A slot \in MovedSlots :
         LET c == state.currentPlayerIndex + 1
             endsGame == state'.gameStatus = "Finished" /\ state.gameStatus # "Finished"
             captured == \E j \in Opponents : \E m \in 1..4 :
                            PieceAt(state', j, m) # PieceAt(state, j, m)
             finished == PieceAt(state', c, slot).state = "Finished"
             extra == state.diceValue = 6 \/ captured \/ finished
             kept == /\ state'.currentPlayerIndex = state.currentPlayerIndex
                     /\ state'.diceValue = null
                     /\ state'.movablePieces = {}
                     /\ state'.turnTimeLeft = TURN_TIME_LIMIT
         IN ~endsGame =>
              /\ kept <=> extra
              /\ ~extra => state'.currentPlayerIndex = NextActiveSeat(state)
      ]_vars

-----------------------------------------------------------------------------
(* getNewPositionInfo on its own: every colour, every piece, every dice value *)

Colors == {"Red", "Green", "Blue", "Yellow"}

PieceInputs ==
    {[id |-> IndexOf(c) * 4, color |-> c, state |-> sp[1], position |-> sp[2]] :
        c \in Colors,
        sp \in {H, F} \cup {A(cell) : cell \in MainPath \cup 100..104}}

InitPosition ==
    /\ ServerStart
    /\ suspended = <<>> /\ base = NoGame /\ invoked = <<>>
    /\ rolls = 0 /\ ticks = 0
    /\ argPiece \in PieceInputs
    /\ argDice \in Faces
    /\ retInfo = <<>>
    /\ startTimers = 0 /\ authPending = {}
    /\ advanceTimers = 0 /\ reconnectTimers = {}
    /\ SessionStart

ApplyGetNewPositionInfo ==
    /\ retInfo = <<>>
    /\ retInfo' = <<getNewPositionInfo(argPiece, argDice)>>
    /\ UNCHANGED <<games, state, clients, turnTimer, wsUserId, rollTimers, rolls, ticks,
                   asyncVars, argPiece, argDice, lobbyVars, sessionVars>>

SpecPosition == InitPosition /\ [][ApplyGetNewPositionInfo]_vars

Stay(piece) == [position |-> piece.position, state |-> piece.state]

\* The target the rules give a piece for the dice value d.
RuleTarget(piece, d) ==
    LET distToPreHome == (PRE_HOME_POSITIONS[piece.color] - piece.position + 52) % 52
        index == d - distToPreHome - 1
    IN CASE piece.state = "Home" ->
              IF d = 6 THEN [position |-> START_POSITIONS[piece.color], state |-> "Active"]
              ELSE Stay(piece)
         [] piece.state = "Active" /\ piece.position \in 1..52 ->
              IF d > distToPreHome
              THEN [position |-> 100 + index,
                    state |-> IF index = 5 THEN "Finished" ELSE "Active"]
              ELSE [position |-> ((piece.position - 1 + d) % 52) + 1, state |-> "Active"]
         [] piece.state = "Active" /\ piece.position \in 100..104 ->
              IF piece.position + d <= 105
              THEN [position |-> piece.position + d,
                    state |-> IF piece.position + d = 105 THEN "Finished" ELSE "Active"]
              ELSE Stay(piece)
         [] piece.state = "Finished" -> Stay(piece)

\* C7: getNewPositionInfo returns the target of the rules for every piece and dice
\* value; in particular a piece on its colour's pre-home cell always enters the
\* home stretch, and finishes with a 6.
C7_PositionFollowsRules ==
    retInfo # <<>> =>
        /\ retInfo[1] = RuleTarget(argPiece, argDice)
        /\ (argPiece.state = "Active"
              /\ argPiece.position = PRE_HOME_POSITIONS[argPiece.color]) =>
                /\ retInfo[1].position = 99 + argDice
                /\ argDice = 6 => retInfo[1].state = "Finished"

\* The call was made for a piece on its pre-home cell with a 6, and it finished.
C7_Witness ==
    /\ retInfo # <<>>
    /\ argPiece.state = "Active"
    /\ argPiece.position = PRE_HOME_POSITIONS[argPiece.color]
    /\ argDice = 6
    /\ retInfo[1] = [position |-> 105, state |-> "Finished"]

-----------------------------------------------------------------------------
(* A seat that rolls nothing but sixes.                                    *)
(* The room is in play, every completed roll is a 6 of the player to play, *)
(* and between two rolls lies the move that consumed the dice.             *)

InitSixes == InPlayStart /\ AuxStart

NextSixes ==
    \/ \E u \in Users : RollDice(u, MaxSixRolls)
    \/ \E u \in Users : CompleteRollTimer(u, {6})
    \/ \E u \in Users, pieceId \in PieceIds : MovePiece(u, pieceId)

SpecSixes == InitSixes /\ [][NextSixes]_vars

\* C10: the third 6 in succession within one seat is forfeited: nothing moves, the
\* dice and the movable set are cleared, and the seat goes to the next active
\* player with consecutiveSixes = 0.
C10_ThirdSixForfeitsTurn ==
    [][(rolls = 2 /\ rolls' = 3) =>
          /\ state'.diceValue = null
          /\ state'.movablePieces = {}
          /\ state'.currentPlayerIndex = NextActiveSeat(state)
          /\ state'.players[state'.currentPlayerIndex + 1].consecutiveSixes = 0
          /\ \A i \in Seats(state) : state'.players[i].pieces = state.players[i].pieces
      ]_vars

-----------------------------------------------------------------------------
(* Handlers that overlap at a persistence await.                             *)
(* logTurnActivity awaits the insert only when gameState.tournamentId is set, *)
(* so only tournament rooms give up the event loop inside a rule-engine call. *)
(* Of the awaits of the rule engine the first one of movePiece (game.js 320)  *)
(* is taken as a point where other handlers of the room may run; every other  *)
(* await is taken to resume before anything else runs.  The behaviours below  *)
(* are therefore a subset of those of the server.                            *)

Cmd(kind, user, arg) == [kind |-> kind, user |-> user, arg |-> arg]

\* The handler of a command run from start to end with nothing in between.
ApplyCommand(g, cmd) ==
    CASE cmd.kind = "MOVE_PIECE" -> movePiece(g, cmd.user, cmd.arg)
      [] cmd.kind = "ROLL_DICE" -> initiateRoll(g, cmd.user)
      [] cmd.kind = "completeRoll" -> completeRoll(g, cmd.user, cmd.arg)
      [] cmd.kind = "LEAVE_GAME" -> leaveGame(g, cmd.user)

RECURSIVE RunInOrder(_, _, _)
RunInOrder(g, cmds, order) ==
    IF order = <<>> THEN g
    ELSE RunInOrder(ApplyCommand(g, cmds[Head(order)]), cmds, Tail(order))

Orders(n) == {f \in [1..n -> 1..n] : \A i, j \in 1..n : f[i] = f[j] => i = j}

SerialOutcomes(g, cmds) == {RunInOrder(g, cmds, o) : o \in Orders(Len(cmds))}

\* Bookkeeping: the handlers started while a call was parked, and the state the
\* first of them started in.  A handler that runs alone from start to end leaves
\* nothing to compare.
Started(cmd, parks) ==
    IF suspended # <<>>
    THEN Len(invoked) < MaxWindow /\ base' = base /\ invoked' = Append(invoked, cmd)
    ELSE IF parks
    THEN base' = state /\ invoked' = <<cmd>>
    ELSE base' = state' /\ invoked' = <<>>

InitAsync ==
    /\ \E b \in Boards :
         /\ b.tournamentId # NoTournament
         /\ games = {GameCode}
         /\ state = b
         /\ clients = {b.players[i].playerId : i \in 1..Len(b.players)}
         /\ wsUserId = {b.players[i].playerId : i \in 1..Len(b.players)}
         /\ turnTimer = TRUE
         /\ rollTimers = [u \in Users |-> 0]
    /\ suspended = <<>> /\ base = state /\ invoked = <<>>
    /\ rolls = 0 /\ ticks = 0
    /\ argPiece = NoPiece /\ argDice = 1 /\ retInfo = <<>>
    /\ startTimers = 0 /\ authPending = {}
    /\ advanceTimers = 0 /\ reconnectTimers = {}
    /\ SessionStart

\* The call reaches game.js 320 and the insert is awaited.
Parks(g, playerId, pieceId) ==
    /\ MoveAccepted(g, playerId, pieceId)
    /\ OwnsPiece(Current(g), pieceId)
    /\ g.tournamentId # NoTournament

\* The frames of a client name a piece of its own player.
OwnPiece(u, pieceId) ==
    \E i \in Seats(state) : state.players[i].playerId = u /\ OwnsPiece(state.players[i], pieceId)

\* case 'MOVE_PIECE' up to the first await of movePiece; the rest of the call is
\* parked when the insert is awaited.
AsyncMovePiece(u, pieceId) ==
    /\ Dispatch(u)
    /\ OwnPiece(u, pieceId)
    /\ IF Parks(state, u, pieceId)
       THEN LET c == state.currentPlayerIndex + 1
                k == PieceSlot(state.players[c], pieceId)
                info == getNewPositionInfo(state.players[c].pieces[k], state.diceValue)
            IN /\ Len(suspended) < MaxSuspended
               /\ state' = movePieceBegin(state, u, pieceId)
               /\ suspended' = Append(suspended,
                       [c |-> c, newPos |-> info.position, newState |-> info.state])
       ELSE /\ state' = movePiece(state, u, pieceId)
            /\ suspended' = suspended
    /\ Started(Cmd("MOVE_PIECE", u, pieceId), Parks(state, u, pieceId))
    /\ UNCHANGED <<games, clients, turnTimer, wsUserId, rollTimers, rolls, ticks, fnVars,
                   sessionVars, lobbyVars>>

\* The insert settles and a parked movePiece runs on from game.js 322.
AsyncResume(n) ==
    /\ n \in 1..Len(suspended)
    /\ state' = movePieceRest(state, suspended[n].c, suspended[n].newPos,
                              suspended[n].newState)
    /\ suspended' = SubSeq(suspended, 1, n - 1) \o SubSeq(suspended, n + 1, Len(suspended))
    /\ UNCHANGED <<games, clients, turnTimer, wsUserId, rollTimers, rolls, ticks,
                   base, invoked, fnVars, sessionVars, lobbyVars>>

AsyncRollDice(u) ==
    /\ Dispatch(u)
    /\ rolls < MaxRolls
    /\ PendingRolls < MaxRollTimers
    /\ state' = initiateRoll(state, u)
    /\ Started(Cmd("ROLL_DICE", u, 0), FALSE)
    /\ rollTimers' = [rollTimers EXCEPT ![u] = @ + 1]
    /\ UNCHANGED <<games, clients, turnTimer, wsUserId, rolls, ticks, suspended, fnVars,
                   sessionVars, lobbyVars>>

AsyncCompleteRollTimer(u) ==
    /\ rollTimers[u] > 0
    /\ rollTimers' = [rollTimers EXCEPT ![u] = @ - 1]
    /\ \E random \in Faces :
         /\ state' = completeRoll(state, u, random)
         /\ Started(Cmd("completeRoll", u, random), FALSE)
    /\ rolls' = IF RollAccepted(state, u) THEN rolls + 1 ELSE rolls
    /\ UNCHANGED <<games, clients, turnTimer, wsUserId, ticks, suspended, fnVars,
                   sessionVars, lobbyVars>>

AsyncLeaveGame(u) ==
    /\ Dispatch(u)
    /\ state' = leaveGame(state, u)
    /\ Started(Cmd("LEAVE_GAME", u, 0), FALSE)
    /\ UNCHANGED <<games, clients, turnTimer, wsUserId, rollTimers, rolls, ticks,
                   suspended, fnVars, sessionVars, lobbyVars>>

NextAsync ==
    \/ \E u \in Users, pieceId \in PieceIds : AsyncMovePiece(u, pieceId)
    \/ \E n \in 1..MaxSuspended : AsyncResume(n)
    \/ \E u \in Users : AsyncRollDice(u)
    \/ \E u \in Users : AsyncCompleteRollTimer(u)
    \/ \E u \in Users : AsyncLeaveGame(u)

SpecAsync == InitAsync /\ [][NextAsync]_vars

\* C1: whatever handlers overlapped at a persistence await, once none is parked the
\* game state is one that running the same handlers one at a time, in some order,
\* produces from the state they started in.
C1_OverlappingHandlersSerialize ==
    suspended = <<>> => state \in SerialOutcomes(base, invoked)

-----------------------------------------------------------------------------
(* completeRoll on its own: a roll in progress, every value of the random    *)
(* source.  The games are those the rule engine produces: rollsWithoutSix is  *)
(* counted only while all four pieces are Home and is cleared by the 6 that   *)
(* brings a piece out, so it is 0..4 with all pieces Home and 0 otherwise.    *)

\* Three seated in a room of four, nobody out yet.
BoardAllHome ==
    InPlay([type |-> "manual", max_players |-> 4, tournamentId |-> NoTournament],
           << <<H, H, H, H>>, <<H, H, H, H>>, <<H, H, H, H>> >>)

\* Blue to play with all pieces Home while Green is on the board.
BoardBlueHome ==
    LET g == InPlay([type |-> "manual", max_players |-> 2, tournamentId |-> NoTournament],
                    << <<A(10), A(50), H, H>>, <<H, H, H, H>> >>)
    IN [g EXCEPT !.currentPlayerIndex = 1]

RollInputs ==
    {[b EXCEPT !.isRolling = TRUE] : b \in Boards}
    \cup {[b EXCEPT !.isRolling = TRUE,
                    !.players[b.currentPlayerIndex + 1].rollsWithoutSix = n] :
            b \in {BoardAllHome, BoardBlueHome}, n \in 0..4}

InitRoll ==
    /\ state \in RollInputs
    /\ games = {GameCode}
    /\ clients = {state.players[i].playerId : i \in 1..Len(state.players)}
    /\ wsUserId = {state.players[i].playerId : i \in 1..Len(state.players)}
    /\ turnTimer = TRUE
    /\ rollTimers = [u \in Users |-> IF u = Current(state).playerId THEN 1 ELSE 0]
    /\ AuxStart

\* The 500 ms callback, keeping the game it ran on and what the random source gave.
ApplyCompleteRoll(u) ==
    /\ invoked = <<>>
    /\ rollTimers[u] > 0
    /\ rollTimers' = [rollTimers EXCEPT ![u] = @ - 1]
    /\ \E random \in Faces :
         /\ state' = completeRoll(state, u, random)
         /\ invoked' = <<Cmd("completeRoll", u, random)>>
    /\ base' = state
    /\ rolls' = IF RollAccepted(state, u) THEN rolls + 1 ELSE rolls
    /\ UNCHANGED <<games, clients, turnTimer, wsUserId, ticks, suspended, fnVars,
                   sessionVars, lobbyVars>>

NextRoll ==
    \/ \E u \in Users : ApplyCompleteRoll(u)
    \/ \E u \in Users, pieceId \in PieceIds : MovePiece(u, pieceId)

SpecRoll == InitRoll /\ [][NextRoll]_vars

\* C11: a completed roll of a player with all four pieces Home and rollsWithoutSix
\* of 4 or more gives diceValue 6 whatever the random source returned and clears
\* the counter; a roll that is not a 6 adds 1 to the counter when all four pieces
\* were Home at the roll and leaves it alone otherwise.
C11_PitySix ==
    (invoked # <<>> /\ state.diceValue # null) =>
        LET c == base.currentPlayerIndex + 1
            before == base.players[c]
            after == state.players[c]
        IN /\ (AllPiecesHome(before) /\ before.rollsWithoutSix >= 4) =>
                 (state.diceValue = 6 /\ after.rollsWithoutSix = 0)
           /\ state.diceValue # 6 =>
                 after.rollsWithoutSix =
                    before.rollsWithoutSix + (IF AllPiecesHome(before) THEN 1 ELSE 0)
           /\ state.diceValue = 6 => after.rollsWithoutSix = 0

\* The random source gave 2 and the dice shows the forced 6.
C11_Witness ==
    /\ invoked # <<>>
    /\ invoked[1].arg = 2
    /\ AllPiecesHome(Current(base))
    /\ Current(base).rollsWithoutSix = 4
    /\ state.diceValue = 6
    /\ Current(state).rollsWithoutSix = 0

-----------------------------------------------------------------------------
(* The winner *)

\* C12: a winner is set only in a Finished game, and is a player who is not removed
\* and either has all four pieces Finished with hasFinished set, or is the only
\* player neither removed nor finished.
C12_WinnerIsLegitimate ==
    state.winner # null =>
        /\ state.gameStatus = "Finished"
        /\ \E i \in Seats(state) :
             /\ state.players[i].playerId = state.winner
             /\ ~state.players[i].isRemoved
             /\ \/ /\ \A k \in 1..4 : state.players[i].pieces[k].state = "Finished"
                   /\ state.players[i].hasFinished
                \/ ActivePlayers(state) = {i}

-----------------------------------------------------------------------------
(* Leaving and missed turns.                                                  *)
(* Rooms in the lobby and in play; clients send MOVE_PIECE only while the     *)
(* game is Playing, and the random source gives a 1 or a 6.                   *)

\* Two seated in a manual room of two, three seated in a tournament room of four.
LobbyBoards ==
    {Seated([type |-> "manual", max_players |-> 2, tournamentId |-> NoTournament], 2),
     Seated([type |-> "tournament", max_players |-> 4, tournamentId |-> TournamentId], 3)}

InitLeave ==
    /\ state \in Boards \cup LobbyBoards
    /\ games = {GameCode}
    /\ clients = {state.players[i].playerId : i \in 1..Len(state.players)}
    /\ wsUserId = {state.players[i].playerId : i \in 1..Len(state.players)}
    /\ turnTimer = (state.gameStatus = "Playing")
    /\ rollTimers = [u \in Users |-> 0]
    /\ AuxStart

LeaveFaces == {1, 6}

MovePieceInPlay(u, pieceId) == state.gameStatus = "Playing" /\ MovePiece(u, pieceId)

NextLeave ==
    \/ \E u \in Users : Auth(u)
    \/ \E u \in Users : StartGame(u)
    \/ \E u \in Users : RollDice(u, MaxRolls)
    \/ \E u \in Users : CompleteRollTimer(u, LeaveFaces)
    \/ \E u \in Users, pieceId \in PieceIds : MovePieceInPlay(u, pieceId)
    \/ \E u \in Users : LeaveGame(u)
    \/ GameLoopStop
    \/ GameLoopCountdown
    \/ GameLoopMissedTurn

SpecLeave == InitLeave /\ [][NextLeave]_vars

\* Seat i is marked removed by this step.
Removes(i) == ~state.players[i].isRemoved /\ state'.players[i].isRemoved

\* C13: when a step marks a player removed (LEAVE_GAME or a forfeiture) and exactly
\* one player neither removed nor finished remains, that player is the winner and
\* the game is Finished after the step; when two or more remain, gameStatus is
\* unchanged, the seat stays if the leaver was not the current seat, and in a game
\* in play it goes to the next active player if the leaver was.
C13_LastActivePlayerWins ==
    [][\A i \in Seats(state) : Removes(i) =>
          LET remaining == ActivePlayers(state') IN
          /\ Cardinality(remaining) = 1 =>
                /\ \A w \in remaining : state'.winner = state'.players[w].playerId
                /\ state'.gameStatus = "Finished"
          /\ Cardinality(remaining) >= 2 =>
                /\ state'.gameStatus = state.gameStatus
                /\ i # state.currentPlayerIndex + 1 =>
                      state'.currentPlayerIndex = state.currentPlayerIndex
                /\ (i = state.currentPlayerIndex + 1 /\ state.gameStatus = "Playing") =>
                      state'.currentPlayerIndex = NextActiveSeat(state)
      ]_vars

\* Red has left a game of three in play: Green and Blue play on, Green to play.
C13_Witness ==
    /\ Len(state.players) = 3
    /\ state.players[1].isRemoved
    /\ state.players[1].inactiveTurns = 0
    /\ ~state.players[2].isRemoved /\ ~state.players[3].isRemoved
    /\ state.gameStatus = "Playing"
    /\ state.currentPlayerIndex = 1
    /\ state.winner = null

-----------------------------------------------------------------------------
(* The turn clock running out.                                                *)
(* Rooms in play whose clock is about to expire, with the missed turns the    *)
(* players have collected so far; invoked lists the expiries handled.         *)

ClockInputs ==
    {[b EXCEPT !.turnTimeLeft = t,
               !.players[b.currentPlayerIndex + 1].inactiveTurns = n,
               !.players[NextActiveSeat(b) + 1].inactiveTurns = o] :
        b \in Boards, t \in {0, 1}, n \in 0..(MAX_INACTIVE_TURNS - 1),
        o \in {0, MAX_INACTIVE_TURNS - 1}}

InitClock ==
    /\ state \in ClockInputs
    /\ games = {GameCode}
    /\ clients = {state.players[i].playerId : i \in 1..Len(state.players)}
    /\ wsUserId = {state.players[i].playerId : i \in 1..Len(state.players)}
    /\ turnTimer = TRUE
    /\ rollTimers = [u \in Users |-> 0]
    /\ AuxStart

\* The setInterval callback at turnTimeLeft 0, noted in invoked.
ClockExpiry ==
    /\ turnTimer
    /\ LoopCounts(state)
    /\ state.turnTimeLeft <= 0
    /\ state' = handleMissedTurn(state)
    /\ invoked' = Append(invoked, Cmd("handleMissedTurn", Current(state).playerId, 0))
    /\ UNCHANGED <<games, clients, turnTimer, wsUserId, rollTimers, rolls, ticks,
                   suspended, base, fnVars, sessionVars, lobbyVars>>

NextClock ==
    \/ GameLoopCountdown
    \/ ClockExpiry
    \/ \E u \in Users : RollDice(u, MaxRolls)
    \/ \E u \in Users : CompleteRollTimer(u, LeaveFaces)
    \/ \E u \in Users, pieceId \in PieceIds : MovePieceInPlay(u, pieceId)
    \/ \E u \in Users : LeaveGame(u)

SpecClock == InitClock /\ [][NextClock]_vars

InactiveTurns(g, i) == g.players[i].inactiveTurns

C15_LeaveIsIdempotent ==
    \A u \in Users :
        LET once == leaveGame(state, u) IN
        /\ leaveGame(once, u) = once
        /\ leaveGameLogged(once, u) = <<>>

\* Green, whose turn it was, has left a game of three and the seat has moved on;
\* a second LEAVE_GAME of Green would find Blue at the seat.
C15_Witness ==
    /\ Len(state.players) = 3
    /\ state.players[2].isRemoved
    /\ ~state.players[1].isRemoved /\ ~state.players[3].isRemoved
    /\ state.gameStatus = "Playing"
    /\ state.currentPlayerIndex = 2

-----------------------------------------------------------------------------
(* The rule engine at the top of game.js (lines 1-385), which server.js     *)
(* requires.  It has no six counters, and its startGame and completeRoll    *)
(* take a fourth argument, licenseStatus, false when it is not passed.      *)
(* gameState.message is part of the record here; a message is the text      *)
(* with the players it names.  turn_history and chatMessages are left out.  *)
(***************************************************************************)

NoOne == 0

Msg(text, who, whom) == [text |-> text, who |-> who, whom |-> whom, again |-> FALSE]

game_createPlayer(playerId, color, isHost) ==
    [playerId |-> playerId,
     color |-> color,
     pieces |-> [i \in 1..4 |->
                   [id |-> IndexOf(color) * 4 + (i - 1), color |-> color,
                    state |-> "Home", position |-> -1]],
     isHost |-> isHost,
     hasFinished |-> FALSE,
     isRemoved |-> FALSE,
     inactiveTurns |-> 0]

game_advanceTurn(g) ==
    IF g.gameStatus # "Playing" THEN g
    ELSE LET nextIndex == SeekNext(g, (g.currentPlayerIndex + 1) % Len(g.players), 0) IN
         IF ActivePlayers(g) = {} /\ Len(g.players) > 1
         THEN [g EXCEPT !.gameStatus = "Finished", !.winner = null,
                        !.message = Msg("Game Over! No active players left.", NoOne, NoOne)]
         ELSE [g EXCEPT !.currentPlayerIndex = nextIndex,
                        !.diceValue = null,
                        !.isRolling = FALSE,
                        !.movablePieces = {},
                        !.turnTimeLeft = TURN_TIME_LIMIT,
                        !.message = Msg("'s turn.", g.players[nextIndex + 1].playerId, NoOne)]

game_createNewGame(hostId, type, max_players, tournamentId) ==
    [hostId |-> hostId,
     type |-> type,
     max_players |-> max_players,
     tournamentId |-> tournamentId,
     players |-> <<>>,
     playerOrder |-> <<>>,
     currentPlayerIndex |-> 0,
     diceValue |-> null,
     gameStatus |-> "Setup",
     winner |-> null,
     message |-> Msg("Waiting for players...", NoOne, NoOne),
     movablePieces |-> {},
     isRolling |-> FALSE,
     turnTimeLeft |-> TURN_TIME_LIMIT]

game_addPlayer(g, playerId) ==
    IF g.gameStatus # "Setup" THEN g
    ELSE IF Len(g.players) >= g.max_players THEN g
    ELSE IF HasPlayer(g, playerId) THEN g
    ELSE LET isHost == Len(g.players) = 0
             color == IF g.max_players = 2
                      THEN TWO_PLAYER_COLORS[Len(g.players) + 1]
                      ELSE ALL_COLORS[Len(g.players) + 1]
         IN [g EXCEPT !.players = Append(g.players, game_createPlayer(playerId, color, isHost)),
                      !.message = Msg(" joined the game!", playerId, NoOne)]

game_startGame(g, requestingPlayerId, licenseStatus) ==
    IF ~licenseStatus
    THEN [g EXCEPT !.message = Msg("Server License Error: Game cannot start.", NoOne, NoOne)]
    ELSE IF requestingPlayerId # null /\ g.hostId # requestingPlayerId
    THEN [g EXCEPT !.message = Msg("Only the host can start the game.", NoOne, NoOne)]
    ELSE IF g.gameStatus # "Setup" \/ Len(g.players) < 2
    THEN [g EXCEPT !.message = Msg("Need at least 2 players to start.", NoOne, NoOne)]
    ELSE [g EXCEPT !.gameStatus = "Playing",
                   !.playerOrder = [i \in 1..Len(g.players) |-> g.players[i].color],
                   !.currentPlayerIndex = 0,
                   !.turnTimeLeft = TURN_TIME_LIMIT,
                   !.message = Msg("Game started!", g.players[1].playerId, NoOne)]

game_initiateRoll(g, playerId) ==
    IF Len(g.players) = 0 THEN g
    ELSE IF Current(g).playerId # playerId \/ g.diceValue # null \/ g.isRolling THEN g
    ELSE [g EXCEPT !.isRolling = TRUE,
                   !.message = Msg(" is rolling...", playerId, NoOne)]

\* random is the value of Math.floor(Math.random() * 6) + 1
game_completeRoll(g, playerId, random, licenseStatus) ==
    IF ~licenseStatus
    THEN [g EXCEPT !.message = Msg("License Invalid. Gameplay paused.", NoOne, NoOne)]
    ELSE IF ~RollAccepted(g, playerId) THEN g
    ELSE LET c == g.currentPlayerIndex + 1 IN
         [g EXCEPT !.players[c].inactiveTurns = 0,
                   !.diceValue = random,
                   !.isRolling = FALSE,
                   !.movablePieces = calculateMovablePieces(g.players[c], random),
                   !.message = Msg(" rolled.", playerId, NoOne)]

\* What completeRoll returns: true when the roll leaves nothing to move.
game_completeRollResult(g, playerId, random, licenseStatus) ==
    /\ licenseStatus
    /\ RollAccepted(g, playerId)
    /\ game_completeRoll(g, playerId, random, licenseStatus).movablePieces = {}

\* The opponents (as indices) the capture loop of movePiece sends home.
Captured(players, color, newPos, newState) ==
    IF newState = "Active" /\ newPos < FINISH_POSITION_START /\ newPos \notin SAFE_SPOTS
    THEN {i \in 1..Len(players) :
            /\ players[i].color # color
            /\ \E k \in 1..4 : players[i].pieces[k].position = newPos}
    ELSE {}

LastOf(S) == CHOOSE i \in S : \A j \in S : j <= i

game_movePiece(g, playerId, pieceId) ==
    IF ~MoveAccepted(g, playerId, pieceId) THEN g
    ELSE LET c == g.currentPlayerIndex + 1
             g1 == [g EXCEPT !.players[c].inactiveTurns = 0]
         IN IF ~OwnsPiece(g.players[c], pieceId) THEN g1
            ELSE LET k == PieceSlot(g.players[c], pieceId)
                     info == getNewPositionInfo(g.players[c].pieces[k], g.diceValue)
                     g2 == [g1 EXCEPT !.players[c].pieces[k].position = info.position,
                                      !.players[c].pieces[k].state = info.state,
                                      !.message = Msg(" moved a piece.", playerId, NoOne)]
                     hit == Captured(g2.players, g2.players[c].color, info.position, info.state)
                     g3 == [g2 EXCEPT !.players = CapturePieces(g2.players, g2.players[c].color,
                                                                info.position, info.state),
                                      !.message = IF hit = {} THEN @
                                                  ELSE Msg(" captured a piece!", playerId,
                                                           g2.players[LastOf(hit)].playerId)]
                 IN IF \A j \in 1..4 : g3.players[c].pieces[j].state = "Finished"
                    THEN [g3 EXCEPT !.players[c].hasFinished = TRUE,
                                    !.winner = playerId,
                                    !.gameStatus = "Finished",
                                    !.message = Msg(" wins the game!", playerId, NoOne)]
                    ELSE IF g3.diceValue = 6 \/ hit # {}
                    THEN [g3 EXCEPT !.diceValue = null,
                                    !.movablePieces = {},
                                    !.message.again = TRUE,
                                    !.turnTimeLeft = TURN_TIME_LIMIT]
                    ELSE game_advanceTurn(g3)

game_leaveGame(g, playerId) ==
    IF ~HasPlayer(g, playerId) THEN g
    ELSE LET i == FindPlayer(g, playerId) IN
         IF g.players[i].isRemoved THEN g
         ELSE LET g1 == [g EXCEPT !.players[i].isRemoved = TRUE,
                                  !.message = Msg(" left the game.", playerId, NoOne)]
                  activePlayers == ActivePlayers(g1)
              IN IF Cardinality(activePlayers) = 1
                 THEN LET w == g1.players[CHOOSE a \in activePlayers : TRUE].playerId IN
                      [g1 EXCEPT !.winner = w,
                                 !.gameStatus = "Finished",
                                 !.message = Msg(" wins as the opponent left the game!", w, NoOne)]
                 ELSE IF Current(g1).playerId = playerId
                 THEN game_advanceTurn(g1)
                 ELSE g1

game_handleMissedTurn(g) ==
    IF Len(g.players) = 0 \/ g.gameStatus # "Playing" THEN g
    ELSE LET c == g.currentPlayerIndex + 1
             g1 == [g EXCEPT !.players[c].inactiveTurns = @ + 1,
                             !.message = Msg(" missed their turn.", g.players[c].playerId, NoOne)]
         IN IF g1.players[c].inactiveTurns >= MAX_INACTIVE_TURNS
            THEN game_leaveGame(g1, g1.players[c].playerId)
            ELSE game_advanceTurn(g1)


-----------------------------------------------------------------------------
(* The room server of server.js (lines 1-440): tournament rooms only, made  *)
(* when the first connection for the code arrives.  game.turnTimer is a     *)
(* one-second timeout that rearms itself; turnTimer is TRUE while one is    *)
(* pending.  The timers of a room that left the registry keep its game      *)
(* object and are not followed once a new room is made for the code.        *)
(***************************************************************************)

MaxStartTimers == 1
MaxFinishTimers == 2

game_NoGame == game_createNewGame(null, "tournament", 2, TournamentId)

\* wss.on('connection') for a code without a room: the tournament row gives the
\* host (players_joined[0]) and max_players.
server_Connect(hostId, max_players) ==
    /\ games = {}
    /\ games' = {GameCode}
    /\ state' = game_createNewGame(hostId, "tournament", max_players, TournamentId)
    /\ clients' = {}
    /\ turnTimer' = FALSE
    /\ rollTimers' = [u \in Users |-> 0]
    /\ startTimers' = 0
    /\ staleFinish' = finishTimers
    /\ UNCHANGED <<wsUserId, rolls, ticks, asyncVars, fnVars, getUserPending, closed4001,
                   wsClosed, finishTimers, evictTimers, graceTimers, tickVars,
                   authPending, advanceTimers, reconnectTimers>>

\* startTurnTimer: what it does to game.state, and to the pending timeout t.
server_startTurnTimer(g) ==
    IF g.gameStatus # "Playing" THEN g ELSE [g EXCEPT !.turnTimeLeft = 30]

Rearmed(t, g) == IF g.gameStatus # "Playing" THEN t ELSE TRUE

\* handleGameFinish with a slip: clearTimeout is left out.
ClearedNever(t, g) == t

\* handleGameFinish, called when a handler leaves the game Finished: the
\* pending timeout t is cleared,
Cleared(t, g) == IF g.gameStatus = "Finished" THEN FALSE ELSE t

\* handleGameFinish with a slip: the removal is never scheduled.
ScheduledNever(n, g) == n

\* and one more 5 s timeout is set, next to the n already pending.
Scheduled(n, g) == IF g.gameStatus = "Finished" THEN n + 1 ELSE n

\* The auto-start condition at the end of the AUTH handler.
FullInSetup(g) ==
    g.type = "tournament" /\ Len(g.players) = g.max_players /\ g.gameStatus = "Setup"

\* action AUTH with a token the identity service accepts.  A connection may
\* send it again; every AUTH that finds the room full in Setup sets one more
\* 10 s timer.
server_Auth(u) ==
    /\ GameCode \in games
    /\ LET g == IF ~HasPlayer(state, u) THEN game_addPlayer(state, u) ELSE state IN
       /\ state' = g
       /\ IF FullInSetup(g)
          THEN startTimers < MaxStartTimers /\ startTimers' = startTimers + 1
          ELSE startTimers' = startTimers
    /\ wsUserId' = wsUserId \cup {u}
    /\ clients' = clients \cup {u}
    /\ UNCHANGED <<games, turnTimer, rollTimers, rolls, ticks, asyncVars, fnVars,
                   sessionVars, authPending,
                   advanceTimers, reconnectTimers>>

\* The 10 s callback: startGame(game.state, null, supabase), then startTurnTimer.
server_AutoStart ==
    /\ startTimers > 0
    /\ startTimers' = startTimers - 1
    /\ LET g == game_startGame(state, null, FALSE) IN
       /\ state' = server_startTurnTimer(g)
       /\ turnTimer' = Rearmed(turnTimer, g)
    /\ UNCHANGED <<games, clients, wsUserId, rollTimers, rolls, ticks, asyncVars, fnVars,
                   sessionVars,
                   authPending, advanceTimers, reconnectTimers>>

\* The gates every other frame passes (server.js 279-281).
server_Dispatch(u) ==
    /\ u \in wsUserId
    /\ GameCode \in games
    /\ HasPlayer(state, u)
    /\ ~state.players[FindPlayer(state, u)].isRemoved

\* server.js 283-285: a frame of the player to play restarts the turn timer.
OwnTurn(g, u) == Current(g).playerId = u

server_Touched(g, u) == IF OwnTurn(g, u) THEN server_startTurnTimer(g) ELSE g

TouchedTimer(t, g, u) == IF OwnTurn(g, u) THEN Rearmed(t, g) ELSE t

\* case 'START_GAME': startGame is called with three arguments.
server_StartGame(u) ==
    /\ server_Dispatch(u)
    /\ LET g == game_startGame(server_Touched(state, u), u, FALSE) IN
       /\ state' = server_startTurnTimer(g)
       /\ turnTimer' = Cleared(Rearmed(TouchedTimer(turnTimer, state, u), g), g)
       /\ Scheduled(finishTimers, g) <= MaxFinishTimers
       /\ finishTimers' = Scheduled(finishTimers, g)
    /\ UNCHANGED <<games, clients, wsUserId, rollTimers, rolls, ticks, asyncVars, fnVars,
                   socketVars, lobbyVars>>

\* case 'ROLL_DICE': initiateRoll, and the 1 s timer whatever it did.
server_RollDice(u) ==
    /\ server_Dispatch(u)
    /\ PendingRolls < MaxRollTimers
    /\ state' = game_initiateRoll(server_Touched(state, u), u)
    /\ turnTimer' = TouchedTimer(turnTimer, state, u)
    /\ rollTimers' = [rollTimers EXCEPT ![u] = @ + 1]
    /\ UNCHANGED <<games, clients, wsUserId, rolls, ticks, asyncVars, fnVars,
                   sessionVars, lobbyVars>>

\* The 1 s callback of ROLL_DICE: completeRoll is called with three
\* arguments and returns false, so the inner advanceTurn timer is never set.
server_CompleteRollTimer(u) ==
    /\ rollTimers[u] > 0
    /\ rollTimers' = [rollTimers EXCEPT ![u] = @ - 1]
    /\ \E random \in Faces :
         /\ ~game_completeRollResult(state, u, random, FALSE)
         /\ state' = game_completeRoll(state, u, random, FALSE)
    /\ UNCHANGED <<games, clients, turnTimer, wsUserId, rolls, ticks, asyncVars, fnVars,
                   sessionVars,
                   lobbyVars>>

\* case 'MOVE_PIECE': movePiece, then startTurnTimer whatever movePiece did.
server_MovePiece(u, pieceId) ==
    /\ server_Dispatch(u)
    /\ LET g == game_movePiece(server_Touched(state, u), u, pieceId) IN
       /\ state' = server_startTurnTimer(g)
       /\ turnTimer' = Cleared(Rearmed(TouchedTimer(turnTimer, state, u), g), g)
       /\ Scheduled(finishTimers, g) <= MaxFinishTimers
       /\ finishTimers' = Scheduled(finishTimers, g)
    /\ UNCHANGED <<games, clients, wsUserId, rollTimers, rolls, ticks, asyncVars, fnVars,
                   socketVars, lobbyVars>>

\* case 'LEAVE_GAME'
server_LeaveGame(u) ==
    /\ server_Dispatch(u)
    /\ LET g == game_leaveGame(server_Touched(state, u), u) IN
       /\ state' = server_startTurnTimer(g)
       /\ turnTimer' = Cleared(Rearmed(TouchedTimer(turnTimer, state, u), g), g)
       /\ Scheduled(finishTimers, g) <= MaxFinishTimers
       /\ finishTimers' = Scheduled(finishTimers, g)
    /\ UNCHANGED <<games, clients, wsUserId, rollTimers, rolls, ticks, asyncVars, fnVars,
                   socketVars, lobbyVars>>

\* timerTick returns at once when the game is not in play; no handler leaves a
\* timeout pending then.
\* timerTick with time left after the decrement.
server_TimerCountdown ==
    /\ turnTimer
    /\ GameCode \in games
    /\ state.gameStatus = "Playing"
    /\ state.turnTimeLeft - 1 > 0
    /\ ticks < MaxTicks
    /\ state' = [state EXCEPT !.turnTimeLeft = @ - 1]
    /\ ticks' = ticks + 1
    /\ UNCHANGED <<games, clients, turnTimer, wsUserId, rollTimers, rolls, asyncVars,
                   fnVars, sessionVars, lobbyVars>>

\* timerTick that spends the last second: handleMissedTurn, then
\* handleGameFinish or startTurnTimer.
server_TimerExpiry ==
    /\ turnTimer
    /\ GameCode \in games
    /\ state.gameStatus = "Playing"
    /\ state.turnTimeLeft - 1 <= 0
    /\ LET g == game_handleMissedTurn([state EXCEPT !.turnTimeLeft = @ - 1]) IN
       /\ state' = server_startTurnTimer(g)
       /\ turnTimer' = (g.gameStatus = "Playing")
       /\ Scheduled(finishTimers, g) <= MaxFinishTimers
       /\ finishTimers' = Scheduled(finishTimers, g)
    /\ UNCHANGED <<games, clients, wsUserId, rollTimers, rolls, ticks, asyncVars, fnVars,
                   socketVars, lobbyVars>>

\* The 5 s callback of handleGameFinish: games.delete(gameCode), whatever room
\* the code names by then.  A timerTick still pending finds no room and returns.
\* The game object stays with the callbacks that closed over it.
server_FinishTimeout ==
    /\ finishTimers > 0
    /\ finishTimers' = finishTimers - 1
    /\ staleFinish' = IF staleFinish > 0 THEN staleFinish - 1 ELSE 0
    /\ games' = {}
    /\ turnTimer' = FALSE
    /\ UNCHANGED <<state, clients, wsUserId, rollTimers, rolls, ticks, asyncVars, fnVars,
                   getUserPending, closed4001, wsClosed, evictTimers, graceTimers,
                   tickVars, lobbyVars>>

\* The room after the users 1..n sent AUTH in that order; user 1 is the host.
RECURSIVE game_Seated(_, _)
game_Seated(max_players, n) ==
    IF n = 0 THEN game_createNewGame(1, "tournament", max_players, TournamentId)
    ELSE game_addPlayer(game_Seated(max_players, n - 1), n)

\* A room in play: what startGame leaves when it is given a licence, with the
\* pieces moved to layout[i][k] = <<state, position>>.
game_InPlay(max_players, layout) ==
    LET g == game_startGame(game_Seated(max_players, Len(layout)), 1, TRUE) IN
    [g EXCEPT !.players = [i \in 1..Len(layout) |->
        [g.players[i] EXCEPT !.pieces = [k \in 1..4 |->
            [g.players[i].pieces[k] EXCEPT !.state = layout[i][k][1],
                                           !.position = layout[i][k][2]]]]]]

\* The same room after the player to play rolled d (a licensed completeRoll).
game_Rolled(g, d) ==
    game_completeRoll(game_initiateRoll(g, Current(g).playerId), Current(g).playerId, d, TRUE)

\* Green (user 1) to play; Blue holds the unsafe cell 13 twice and the safe cell 14.
RoomCapture ==
    game_InPlay(2, << <<A(10), A(50), A(103), F>>,
                      <<A(13), A(13), A(14), H>> >>)

\* Red (user 1) to play in a room of four with three seated; Red has let four
\* turns pass and this one has a second left.
RoomThree ==
    LET g == game_InPlay(4, << <<A(20), H, H, H>>,
                               <<A(23), A(49), H, H>>,
                               <<A(24), H, H, H>> >>)
    IN [g EXCEPT !.players[1].inactiveTurns = 4, !.turnTimeLeft = 1]

Rooms ==
    {RoomCapture, game_Rolled(RoomCapture, 3), game_Rolled(RoomCapture, 6),
     RoomThree, game_Rolled(RoomThree, 4)}

InitRoom ==
    /\ \/ /\ games = {}
          /\ state = game_NoGame
          /\ clients = {}
          /\ wsUserId = {}
          /\ turnTimer = FALSE
       \/ \E b \in Rooms :
          /\ games = {GameCode}
          /\ state = b
          /\ clients = {b.players[i].playerId : i \in 1..Len(b.players)}
          /\ wsUserId = {b.players[i].playerId : i \in 1..Len(b.players)}
          /\ turnTimer = TRUE
    /\ rollTimers = [u \in Users |-> 0]
    /\ AuxStart

NextRoom ==
    \/ \E hostId \in Users, max_players \in {2, 4} : server_Connect(hostId, max_players)
    \/ \E u \in Users : server_Auth(u)
    \/ server_AutoStart
    \/ \E u \in Users : server_StartGame(u)
    \/ \E u \in Users : server_RollDice(u)
    \/ \E u \in Users : server_CompleteRollTimer(u)
    \/ \E u \in Users, pieceId \in PieceIds : server_MovePiece(u, pieceId)
    \/ \E u \in Users : server_LeaveGame(u)
    \/ server_TimerCountdown
    \/ server_TimerExpiry
    \/ server_FinishTimeout

SpecRoom == InitRoom /\ [][NextRoom]_vars

-----------------------------------------------------------------------------
(* The rule engine of part_006 (game.js with disconnect and reconnect) and  *)
(* the room server of part_002 that requires it.  Names carry the part's    *)
(* number.  A player has a disconnected flag; gameState.message,            *)
(* turn_history and chatMessages are left out of the record.                *)
(***************************************************************************)

MAX_INACTIVE_TURNS_006 == 3

\* Players away (disconnected or gone) when a connection closes
MaxGrace == 1

createPlayer_006(playerId, color, isHost) ==
    [playerId |-> playerId,
     color |-> color,
     pieces |-> [i \in 1..4 |->
                   [id |-> IndexOf(color) * 4 + (i - 1), color |-> color,
                    state |-> "Home", position |-> -1]],
     isHost |-> isHost,
     hasFinished |-> FALSE,
     isRemoved |-> FALSE,
     inactiveTurns |-> 0,
     disconnected |-> FALSE]

Skipped_006(p) == p.hasFinished \/ p.isRemoved \/ p.disconnected

RECURSIVE SeekNext_006(_, _, _)
SeekNext_006(g, nextIndex, checkedAll) ==
    IF Skipped_006(g.players[nextIndex + 1]) /\ checkedAll < Len(g.players)
    THEN SeekNext_006(g, (nextIndex + 1) % Len(g.players), checkedAll + 1)
    ELSE nextIndex

\* activePlayers[0] || null, as a player id
FirstActive(g) ==
    IF ActivePlayers(g) = {} THEN null
    ELSE g.players[CHOOSE i \in ActivePlayers(g) : \A j \in ActivePlayers(g) : i <= j].playerId

advanceTurn_006(g) ==
    IF g.gameStatus # "Playing" THEN g
    ELSE LET g1 == IF g.currentPlayerIndex + 1 \in 1..Len(g.players)
                   THEN [g EXCEPT !.players[g.currentPlayerIndex + 1].inactiveTurns = 0]
                   ELSE g
             nextIndex == SeekNext_006(g1, (g1.currentPlayerIndex + 1) % Len(g1.players), 0)
         IN IF Cardinality(ActivePlayers(g1)) <= 1 /\ Len(g1.players) > 1
            THEN [g1 EXCEPT !.gameStatus = "Finished", !.winner = FirstActive(g1)]
            ELSE [g1 EXCEPT !.currentPlayerIndex = nextIndex,
                            !.diceValue = null,
                            !.isRolling = FALSE,
                            !.movablePieces = {},
                            !.turnTimeLeft = TURN_TIME_LIMIT]

createNewGame_006(hostId, type, max_players) ==
    [hostId |-> hostId,
     type |-> type,
     max_players |-> max_players,
     players |-> <<>>,
     playerOrder |-> <<>>,
     currentPlayerIndex |-> 0,
     diceValue |-> null,
     gameStatus |-> "Setup",
     winner |-> null,
     movablePieces |-> {},
     isRolling |-> FALSE,
     turnTimeLeft |-> TURN_TIME_LIMIT]

addPlayer_006(g, playerId) ==
    IF g.gameStatus # "Setup" THEN g
    ELSE IF Len(g.players) >= g.max_players THEN g
    ELSE IF HasPlayer(g, playerId) THEN g
    ELSE [g EXCEPT !.players = Append(g.players,
              createPlayer_006(playerId, ALL_COLORS[Len(g.players) + 1], Len(g.players) = 0))]

startGame_006(g, requestingPlayerId) ==
    IF requestingPlayerId # null /\ g.hostId # requestingPlayerId THEN g
    ELSE IF g.gameStatus # "Setup" \/ Len(g.players) < 2 THEN g
    ELSE [g EXCEPT !.gameStatus = "Playing",
                   !.playerOrder = [i \in 1..Len(g.players) |-> g.players[i].color],
                   !.currentPlayerIndex = 0,
                   !.turnTimeLeft = TURN_TIME_LIMIT]

initiateRoll_006(g, playerId) ==
    IF Len(g.players) = 0 THEN g
    ELSE IF Current(g).playerId # playerId \/ g.diceValue # null \/ g.isRolling THEN g
    ELSE [g EXCEPT !.isRolling = TRUE]

\* random is the value of Math.floor(Math.random() * 6) + 1
completeRoll_006(g, playerId, random) ==
    IF ~RollAccepted(g, playerId) THEN g
    ELSE [g EXCEPT !.diceValue = random,
                   !.isRolling = FALSE,
                   !.movablePieces = calculateMovablePieces(Current(g), random)]

\* What completeRoll returns: true when the turn should advance.
completeRollResult_006(g, playerId, random) ==
    /\ RollAccepted(g, playerId)
    /\ calculateMovablePieces(Current(g), random) = {}

movePiece_006(g, playerId, pieceId) ==
    IF ~MoveAccepted(g, playerId, pieceId) THEN g
    ELSE LET c == g.currentPlayerIndex + 1 IN
         IF ~OwnsPiece(g.players[c], pieceId) THEN g
         ELSE LET k == PieceSlot(g.players[c], pieceId)
                  info == getNewPositionInfo(g.players[c].pieces[k], g.diceValue)
                  g1 == [g EXCEPT !.players[c].pieces[k].position = info.position,
                                  !.players[c].pieces[k].state = info.state]
                  hit == Captured(g1.players, g1.players[c].color, info.position, info.state)
                  g2 == [g1 EXCEPT !.players = CapturePieces(g1.players, g1.players[c].color,
                                                             info.position, info.state)]
              IN IF \A j \in 1..4 : g2.players[c].pieces[j].state = "Finished"
                 THEN LET g3 == [g2 EXCEPT !.players[c].hasFinished = TRUE] IN
                      IF Cardinality(ActivePlayers(g3)) <= 1
                      THEN [g3 EXCEPT !.winner = playerId, !.gameStatus = "Finished"]
                      ELSE advanceTurn_006(g3)
                 ELSE IF g2.diceValue = 6 \/ hit # {}
                 THEN [g2 EXCEPT !.diceValue = null,
                                 !.movablePieces = {},
                                 !.turnTimeLeft = TURN_TIME_LIMIT]
                 ELSE advanceTurn_006(g2)

handlePlayerDisconnect_006(g, playerId) ==
    IF ~HasPlayer(g, playerId) THEN g
    ELSE [g EXCEPT !.players[FindPlayer(g, playerId)].disconnected = TRUE]

handlePlayerReconnect_006(g, playerId) ==
    IF ~HasPlayer(g, playerId) THEN g
    ELSE [g EXCEPT !.players[FindPlayer(g, playerId)].disconnected = FALSE]

leaveGame_006(g, playerId) ==
    IF ~HasPlayer(g, playerId) THEN g
    ELSE LET i == FindPlayer(g, playerId) IN
         IF g.players[i].isRemoved THEN g
         ELSE LET g1 == [g EXCEPT !.players[i].isRemoved = TRUE,
                                  !.players[i].disconnected = TRUE]
              IN IF Cardinality(ActivePlayers(g1)) = 1 /\ Len(g1.players) > 1
                 THEN [g1 EXCEPT !.winner = FirstActive(g1), !.gameStatus = "Finished"]
                 ELSE IF Current(g1).playerId = playerId
                 THEN advanceTurn_006(g1)
                 ELSE g1

handleMissedTurn_006(g) ==
    IF g.currentPlayerIndex + 1 \notin 1..Len(g.players) \/ g.gameStatus # "Playing" THEN g
    ELSE LET c == g.currentPlayerIndex + 1
             g1 == [g EXCEPT !.players[c].inactiveTurns = @ + 1]
         IN IF g1.players[c].inactiveTurns >= MAX_INACTIVE_TURNS_006
            THEN leaveGame_006(g1, g1.players[c].playerId)
            ELSE advanceTurn_006(g1)

NoGame_006 == createNewGame_006(null, "tournament", 2)

\* wss.on('connection') for a code without a room.
Connect_002(hostId, max_players) ==
    /\ games = {}
    /\ games' = {GameCode}
    /\ state' = createNewGame_006(hostId, "tournament", max_players)
    /\ clients' = {}
    /\ turnTimer' = FALSE
    /\ UNCHANGED <<wsUserId, rollTimers, rolls, ticks, asyncVars, fnVars,
                   sessionVars, lobbyVars>>

\* action AUTH with a token the identity service accepts: a player who was
\* disconnected is reconnected, a new one is seated; a room then full in
\* Setup gets a 1.5 s timer for startGame.
Auth_002(u) ==
    /\ GameCode \in games
    /\ LET existing == HasPlayer(state, u)
           back == existing /\ state.players[FindPlayer(state, u)].disconnected
           g == IF back THEN handlePlayerReconnect_006(state, u)
                ELSE IF ~existing THEN addPlayer_006(state, u)
                ELSE state
       IN /\ state' = g
          /\ reconnectTimers' = IF back THEN reconnectTimers \ {u} ELSE reconnectTimers
          /\ IF FullInSetup(g)
             THEN startTimers < MaxStartTimers /\ startTimers' = startTimers + 1
             ELSE startTimers' = startTimers
    /\ wsUserId' = wsUserId \cup {u}
    /\ clients' = clients \cup {u}
    /\ UNCHANGED <<games, turnTimer, rollTimers, rolls, ticks, asyncVars, fnVars,
                   sessionVars, authPending,
                   advanceTimers>>

\* The 1.5 s callback: startGame(game.state, null, supabase), then startTurnTimer.
\* startTurnTimer and handleGameFinish of part_002 are those of server.js.
AutoStart_002 ==
    /\ startTimers > 0
    /\ startTimers' = startTimers - 1
    /\ LET g == startGame_006(state, null) IN
       /\ state' = server_startTurnTimer(g)
       /\ turnTimer' = Rearmed(turnTimer, g)
    /\ UNCHANGED <<games, clients, wsUserId, rollTimers, rolls, ticks, asyncVars, fnVars,
                   sessionVars,
                   authPending, advanceTimers, reconnectTimers>>

\* case 'START_GAME'
StartGame_002(u) ==
    /\ server_Dispatch(u)
    /\ LET g == startGame_006(server_Touched(state, u), u) IN
       /\ state' = server_startTurnTimer(g)
       /\ turnTimer' = Cleared(Rearmed(TouchedTimer(turnTimer, state, u), g), g)
    /\ UNCHANGED <<games, clients, wsUserId, rollTimers, rolls, ticks, asyncVars, fnVars,
                   sessionVars,
                   lobbyVars>>

\* case 'ROLL_DICE'
RollDice_002(u) ==
    /\ server_Dispatch(u)
    /\ rolls < MaxRolls
    /\ PendingRolls < MaxRollTimers
    /\ state' = initiateRoll_006(server_Touched(state, u), u)
    /\ turnTimer' = TouchedTimer(turnTimer, state, u)
    /\ rollTimers' = [rollTimers EXCEPT ![u] = @ + 1]
    /\ UNCHANGED <<games, clients, wsUserId, rolls, ticks, asyncVars, fnVars,
                   sessionVars, lobbyVars>>

\* The 1 s callback of ROLL_DICE; a roll without a move sets the 1 s timer
\* that advances the turn.
CompleteRollTimer_002(u) ==
    /\ rollTimers[u] > 0
    /\ rollTimers' = [rollTimers EXCEPT ![u] = @ - 1]
    /\ \E random \in Faces :
         /\ state' = completeRoll_006(state, u, random)
         /\ advanceTimers' = IF completeRollResult_006(state, u, random)
                             THEN advanceTimers + 1 ELSE advanceTimers
    /\ rolls' = IF RollAccepted(state, u) THEN rolls + 1 ELSE rolls
    /\ UNCHANGED <<games, clients, turnTimer, wsUserId, ticks, asyncVars, fnVars, sessionVars,
                   startTimers, authPending, reconnectTimers>>

\* The inner callback: advanceTurn, then startTurnTimer.
AdvanceTimer_002 ==
    /\ advanceTimers > 0
    /\ advanceTimers' = advanceTimers - 1
    /\ LET g == advanceTurn_006(state) IN
       /\ state' = server_startTurnTimer(g)
       /\ turnTimer' = Rearmed(turnTimer, g)
    /\ UNCHANGED <<games, clients, wsUserId, rollTimers, rolls, ticks, asyncVars, fnVars,
                   sessionVars,
                   startTimers, authPending, reconnectTimers>>

\* case 'MOVE_PIECE'
MovePiece_002(u, pieceId) ==
    /\ server_Dispatch(u)
    /\ LET g == movePiece_006(server_Touched(state, u), u, pieceId) IN
       /\ state' = server_startTurnTimer(g)
       /\ turnTimer' = Cleared(Rearmed(TouchedTimer(turnTimer, state, u), g), g)
    /\ UNCHANGED <<games, clients, wsUserId, rollTimers, rolls, ticks, asyncVars, fnVars,
                   sessionVars,
                   lobbyVars>>

\* case 'LEAVE_GAME'
LeaveGame_002(u) ==
    /\ server_Dispatch(u)
    /\ LET g == leaveGame_006(server_Touched(state, u), u) IN
       /\ state' = server_startTurnTimer(g)
       /\ turnTimer' = Cleared(Rearmed(TouchedTimer(turnTimer, state, u), g), g)
    /\ UNCHANGED <<games, clients, wsUserId, rollTimers, rolls, ticks, asyncVars, fnVars,
                   sessionVars,
                   lobbyVars>>

\* ws.on('close') of an authenticated connection: the player is marked
\* disconnected and the grace period starts.
Close_002(u) ==
    /\ u \in wsUserId
    /\ GameCode \in games
    /\ Cardinality({i \in 1..Len(state.players) : state.players[i].disconnected}) < MaxGrace
    /\ wsUserId' = wsUserId \ {u}
    /\ clients' = clients \ {u}
    /\ state' = handlePlayerDisconnect_006(state, u)
    /\ reconnectTimers' = reconnectTimers \cup {u}
    /\ UNCHANGED <<games, turnTimer, rollTimers, rolls, ticks, asyncVars, fnVars, sessionVars,
                   startTimers, authPending, advanceTimers>>

\* The grace period runs out: leaveGame, and handleGameFinish if that ends the game.
ReconnectTimeout_002(u) ==
    /\ u \in reconnectTimers
    /\ reconnectTimers' = reconnectTimers \ {u}
    /\ LET g == IF GameCode \in games THEN leaveGame_006(state, u) ELSE state IN
       /\ state' = g
       /\ turnTimer' = Cleared(turnTimer, g)
    /\ UNCHANGED <<games, clients, wsUserId, rollTimers, rolls, ticks, asyncVars, fnVars,
                   sessionVars,
                   startTimers, authPending, advanceTimers>>

\* timerTick with time left after the decrement.
TimerCountdown_002 ==
    /\ turnTimer
    /\ state.gameStatus = "Playing"
    /\ state.turnTimeLeft - 1 > 0
    /\ ticks < MaxTicks
    /\ state' = [state EXCEPT !.turnTimeLeft = @ - 1]
    /\ ticks' = ticks + 1
    /\ UNCHANGED <<games, clients, turnTimer, wsUserId, rollTimers, rolls, asyncVars,
                   fnVars, sessionVars, lobbyVars>>

\* timerTick that spends the last second.
TimerExpiry_002 ==
    /\ turnTimer
    /\ state.gameStatus = "Playing"
    /\ state.turnTimeLeft - 1 <= 0
    /\ LET g == handleMissedTurn_006([state EXCEPT !.turnTimeLeft = @ - 1]) IN
       /\ state' = server_startTurnTimer(g)
       /\ turnTimer' = (g.gameStatus = "Playing")
    /\ UNCHANGED <<games, clients, wsUserId, rollTimers, rolls, ticks, asyncVars, fnVars,
                   sessionVars,
                   lobbyVars>>

RECURSIVE Seated_006(_, _)
Seated_006(max_players, n) ==
    IF n = 0 THEN createNewGame_006(1, "tournament", max_players)
    ELSE addPlayer_006(Seated_006(max_players, n - 1), n)

\* A room of four in play with three seated, Red (user 1) to play with two
\* turns missed and a second left.
RoomThree_006 ==
    LET g == startGame_006(Seated_006(4, 3), null)
        layout == << <<A(20), H, H, H>>,
                     <<A(23), A(49), H, H>>,
                     <<A(24), H, H, H>> >>
    IN [g EXCEPT !.players = [i \in 1..3 |->
           [g.players[i] EXCEPT !.inactiveTurns = IF i = 1 THEN 2 ELSE 0,
                                !.pieces = [k \in 1..4 |->
               [g.players[i].pieces[k] EXCEPT !.state = layout[i][k][1],
                                              !.position = layout[i][k][2]]]]],
                 !.turnTimeLeft = 1]

InitAuto ==
    /\ \/ /\ games = {}
          /\ state = NoGame_006
          /\ clients = {}
          /\ wsUserId = {}
          /\ turnTimer = FALSE
       \/ /\ games = {GameCode}
          /\ state = RoomThree_006
          /\ clients = {1, 2, 3}
          /\ wsUserId = {1, 2, 3}
          /\ turnTimer = TRUE
    /\ rollTimers = [u \in Users |-> 0]
    /\ AuxStart

NextAuto ==
    \/ \E max_players \in {2, 4} : Connect_002(1, max_players)
    \/ \E u \in Users : Auth_002(u)
    \/ AutoStart_002
    \/ \E u \in Users : StartGame_002(u)
    \/ \E u \in Users : RollDice_002(u)
    \/ \E u \in Users : CompleteRollTimer_002(u)
    \/ AdvanceTimer_002
    \/ \E u \in Users, pieceId \in PieceIds : MovePiece_002(u, pieceId)
    \/ \E u \in Users : LeaveGame_002(u)
    \/ \E u \in Users : Close_002(u)
    \/ \E u \in Users : ReconnectTimeout_002(u)
    \/ TimerCountdown_002
    \/ TimerExpiry_002

\* A timer that is set fires: the 1.5 s start timer is the one the claim rests on.
SpecAuto == InitAuto /\ [][NextAuto]_vars /\ WF_vars(AutoStart_002)

-----------------------------------------------------------------------------
(* The AUTH handler of the unified room server, step by step.               *)
(*                                                                         *)
(* The handler waits twice: for the identity service (getUser) and, when    *)
(* the code has no room yet, for the tournaments lookup.  ws.userId is set  *)
(* between the two.  Connections are told apart from users here: a user     *)
(* may hold two connections (a second tab, a reconnect while the old        *)
(* socket lingers).  wsUserId and authPending hold connections, clients     *)
(* and rollTimers are keyed by user as in the code.                         *)
(***************************************************************************)

Conns == 1..NumUsers

\* The user whose token a connection presents: users 1 and 2 in turn.
Owner(c) == ((c - 1) % 2) + 1

\* An AUTH frame on a connection without ws.userId: the handler awaits getUser.
GateAuthFrame(c) ==
    /\ c \notin wsUserId
    /\ c \notin authPending
    /\ authPending' = authPending \cup {c}
    /\ UNCHANGED <<games, state, clients, turnTimer, wsUserId, rollTimers, rolls, ticks,
                   asyncVars, fnVars, sessionVars, startTimers, advanceTimers, reconnectTimers>>

\* getUser rejects the token: AUTH_FAILURE, and the socket is closed.
GateAuthFailure(c) ==
    /\ c \in authPending
    /\ c \notin wsUserId
    /\ authPending' = authPending \ {c}
    /\ UNCHANGED <<games, state, clients, turnTimer, wsUserId, rollTimers, rolls, ticks,
                   asyncVars, fnVars, sessionVars, startTimers, advanceTimers, reconnectTimers>>

\* getUser accepts the token: ws.userId is set.  With a room in the registry
\* the handler runs to its end; without one it awaits the tournaments lookup.
GateAuthUser(c) ==
    /\ c \in authPending
    /\ c \notin wsUserId
    /\ wsUserId' = wsUserId \cup {c}
    /\ IF GameCode \in games
       THEN /\ authPending' = authPending \ {c}
            /\ clients' = clients \cup {Owner(c)}
            /\ state' = IF ~HasPlayer(state, Owner(c)) THEN addPlayer(state, Owner(c))
                        ELSE state
       ELSE UNCHANGED <<authPending, clients, state>>
    /\ UNCHANGED <<games, turnTimer, rollTimers, rolls, ticks, asyncVars, fnVars, sessionVars,
                   startTimers, advanceTimers, reconnectTimers>>

\* The tournaments lookup answers: the handler makes the room and stores it
\* under the code, whatever the registry holds by then.  Timers of a room it
\* replaces keep the old record and no longer touch this one.
GateAuthRoom(c) ==
    /\ c \in authPending
    /\ c \in wsUserId
    /\ authPending' = authPending \ {c}
    /\ \E o \in RoomOptions :
         state' = addPlayer(createNewGame(Owner(c), o.type, o.max_players, o.tournamentId),
                            Owner(c))
    /\ games' = {GameCode}
    /\ clients' = {Owner(c)}
    /\ turnTimer' = FALSE
    /\ rollTimers' = [u \in Users |-> 0]
    /\ UNCHANGED <<wsUserId, rolls, ticks, asyncVars, fnVars,
                   sessionVars, startTimers, advanceTimers,
                   reconnectTimers>>

\* The tournaments lookup fails: an ERROR frame, and the handler returns with
\* ws.userId set.
GateAuthRoomError(c) ==
    /\ c \in authPending
    /\ c \in wsUserId
    /\ authPending' = authPending \ {c}
    /\ UNCHANGED <<games, state, clients, turnTimer, wsUserId, rollTimers, rolls, ticks,
                   asyncVars, fnVars, sessionVars, startTimers, advanceTimers, reconnectTimers>>

\* Any other frame on a connection without ws.userId: 'Not authenticated.'
GateUnauthenticated(c) ==
    /\ c \notin wsUserId
    /\ UNCHANGED vars

\* The gates of every other frame (part_003 498-501).
GateDispatch(c) == c \in wsUserId /\ GameCode \in games

GateStartGame(c) ==
    /\ GateDispatch(c)
    /\ state' = startGame(state, Owner(c))
    /\ turnTimer' = TRUE
    /\ UNCHANGED <<games, clients, wsUserId, rollTimers, rolls, ticks, asyncVars, fnVars,
                   sessionVars,
                   lobbyVars>>

GateRollDice(c) ==
    /\ GateDispatch(c)
    /\ Len(state.players) > 0
    /\ rolls < MaxRolls
    /\ PendingRolls < MaxRollTimers
    /\ state' = initiateRoll(state, Owner(c))
    /\ rollTimers' = [rollTimers EXCEPT ![Owner(c)] = @ + 1]
    /\ UNCHANGED <<games, clients, turnTimer, wsUserId, rolls, ticks, asyncVars, fnVars,
                   sessionVars,
                   lobbyVars>>

GateMovePiece(c, pieceId) ==
    /\ GateDispatch(c)
    /\ state' = movePiece(state, Owner(c), pieceId)
    /\ UNCHANGED <<games, clients, turnTimer, wsUserId, rollTimers, rolls, ticks,
                   asyncVars, fnVars, sessionVars, lobbyVars>>

GateLeaveGame(c) ==
    /\ GateDispatch(c)
    /\ state' = leaveGame(state, Owner(c))
    /\ UNCHANGED <<games, clients, turnTimer, wsUserId, rollTimers, rolls, ticks,
                   asyncVars, fnVars, sessionVars, lobbyVars>>

\* The empty server, or the room of three in play with the connections of
\* users 1 and 2 authenticated (user 3 sends nothing).
InitGate ==
    /\ \/ ServerStart
       \/ /\ games = {GameCode}
          /\ state = BoardThree
          /\ clients = {1, 2, 3}
          /\ wsUserId = {1, 2}
          /\ turnTimer = TRUE
          /\ rollTimers = [u \in Users |-> 0]
    /\ AuxStart

NextGate ==
    \/ \E c \in Conns : GateAuthFrame(c)
    \/ \E c \in Conns : GateAuthFailure(c)
    \/ \E c \in Conns : GateAuthUser(c)
    \/ \E c \in Conns : GateAuthRoom(c)
    \/ \E c \in Conns : GateAuthRoomError(c)
    \/ \E c \in Conns : GateUnauthenticated(c)
    \/ \E c \in Conns : GateStartGame(c)
    \/ \E c \in Conns : GateRollDice(c)
    \/ \E u \in Users : CompleteRollTimer(u, Faces)
    \/ \E c \in Conns, pieceId \in PieceIds : GateMovePiece(c, pieceId)
    \/ \E c \in Conns : GateLeaveGame(c)
    \/ GameLoopStop
    \/ GameLoopCountdown
    \/ GameLoopMissedTurn

SpecGate == InitGate /\ [][NextGate]_vars

-----------------------------------------------------------------------------
\* C16: in the room server of server.js, a START_GAME of the host while the
\* game is in Setup with at least two players seated moves the game to
\* Playing, with currentPlayerIndex = 0, playerOrder set to the seated
\* colours and turnTimeLeft = 30.
C16_HostStartsGame ==
    [][\A u \in Users :
         (/\ server_StartGame(u)
          /\ u = state.hostId
          /\ state.gameStatus = "Setup"
          /\ Len(state.players) >= 2)
         => /\ state'.gameStatus = "Playing"
            /\ state'.currentPlayerIndex = 0
            /\ state'.playerOrder = [i \in 1..Len(state.players) |-> state.players[i].color]
            /\ state'.turnTimeLeft = 30]_vars

-----------------------------------------------------------------------------
-----------------------------------------------------------------------------
\* C17: a tournament room that is full (players.length = max_players) in
\* Setup is started by the scheduled startGame without any START_GAME:
\* eventually gameStatus = Playing with currentPlayerIndex = 0.
C17_FullRoomIsStarted ==
    (GameCode \in games /\ FullInSetup(state))
        ~> (state.gameStatus = "Playing" /\ state.currentPlayerIndex = 0)

-----------------------------------------------------------------------------
\* C19: in the unified room server, whatever an authenticated user sends
\* (START_GAME, ROLL_DICE, MOVE_PIECE, LEAVE_GAME, SEND_CHAT_MESSAGE) while
\* its player is removed, or while it has no seat in the room, leaves the
\* game state as it was: pieces, seat, dice, status, chat and turn log.
RemovedOrUnseated(g, u) ==
    ~HasPlayer(g, u) \/ g.players[FindPlayer(g, u)].isRemoved

C19_RemovedOrUnseatedIsIgnored ==
    \A u \in Users :
        (Dispatch(u) /\ RemovedOrUnseated(state, u))
        => /\ startGame(state, u) = state
           /\ initiateRoll(state, u) = state
           /\ \A random \in Faces : completeRoll(state, u, random) = state
           /\ \A pieceId \in PieceIds : movePiece(state, u, pieceId) = state
           /\ leaveGame(state, u) = state
           /\ leaveGameLogged(state, u) = <<>>
           /\ ~sendChatMessagePushed(state, u)

-----------------------------------------------------------------------------
\* C20: a frame other than AUTH on a connection whose AUTH has not yet
\* succeeded (none sent, or one still waiting) changes no game state,
\* registers no writer and creates no room.
NotYetAuthenticated(c) == c \notin wsUserId \/ c \in authPending

C20_FramesBeforeAuthAreIgnored ==
    [][\A c \in Conns :
         (/\ NotYetAuthenticated(c)
          /\ \/ GateUnauthenticated(c)
             \/ GateStartGame(c)
             \/ GateRollDice(c)
             \/ \E pieceId \in PieceIds : GateMovePiece(c, pieceId)
             \/ GateLeaveGame(c))
         => state' = state /\ clients' = clients /\ games' = games]_vars

-----------------------------------------------------------------------------
(* The sockets of part_003 one by one.  The message handler is async: an   *)
(* AUTH frame that arrives while an earlier one of the same socket awaits   *)
(* getUser passes 'if (ws.userId) return' as well, and each handler resumes *)
(* when its own call answers.  A frame carries its own token, so the        *)
(* identity service may reject one and accept the other.  No frame is taken *)
(* to arrive on a socket after ws.close was called on it; the handlers that *)
(* were already waiting still resume.  The tournaments lookup of a handler  *)
(* that finds no room is taken to answer before anything else runs.  The    *)
(* timeout of ws.on('close') keeps the game object it was set for; after    *)
(* that room left the registry it still deletes whatever the code names.    *)
(***************************************************************************)

MaxAuthFrames == 2
MaxEvictTimers == 2

\* The timeout set by the close of the last writer of a room.
EvictTimer == [attached |-> FALSE, orphan |-> FALSE]

\* game.clients.set: the timeouts of this room have seen a writer.
Attached(timers) ==
    [i \in 1..Len(timers) |->
        IF timers[i].orphan THEN timers[i] ELSE [timers[i] EXCEPT !.attached = TRUE]]

\* games.delete: the timeouts still pending hold a room no longer registered.
Orphaned(timers) == [i \in 1..Len(timers) |-> [timers[i] EXCEPT !.orphan = TRUE]]

\* An AUTH frame arrives: ws.userId is not set, the handler awaits getUser
\* (part_003 439-442).
SocketAuthFrame(c) ==
    /\ c \notin wsClosed
    /\ c \notin closed4001
    /\ c \notin wsUserId
    /\ getUserPending[c] < MaxAuthFrames
    /\ getUserPending' = [getUserPending EXCEPT ![c] = @ + 1]
    /\ UNCHANGED <<games, state, clients, turnTimer, wsUserId, rollTimers, rolls, ticks,
                   asyncVars, fnVars, lobbyVars, closed4001, wsClosed, finishTimers,
                   evictTimers, graceTimers,
                   tickVars, staleFinish>>

\* getUser rejects the token: AUTH_FAILURE and ws.close(4001) (443-447).
SocketAuthFailure(c) ==
    /\ getUserPending[c] > 0
    /\ getUserPending' = [getUserPending EXCEPT ![c] = @ - 1]
    /\ closed4001' = closed4001 \cup {c}
    /\ UNCHANGED <<games, state, clients, turnTimer, wsUserId, rollTimers, rolls, ticks,
                   asyncVars, fnVars, lobbyVars, wsClosed, finishTimers, evictTimers,
                   graceTimers,
                   tickVars, staleFinish>>

\* getUser accepts the token: the rest of the handler (449-493), which asks
\* nothing about the socket or about ws.userId again.
SocketAuthSuccess(c) ==
    /\ getUserPending[c] > 0
    /\ getUserPending' = [getUserPending EXCEPT ![c] = @ - 1]
    /\ wsUserId' = wsUserId \cup {c}
    /\ \E o \in RoomOptions :
         LET isNew == games = {}
             g0 == IF isNew
                   THEN createNewGame(Owner(c), o.type, o.max_players, o.tournamentId)
                   ELSE state
         IN /\ games' = {GameCode}
            /\ clients' = (IF isNew THEN {} ELSE clients) \cup {Owner(c)}
            /\ turnTimer' = IF isNew THEN FALSE ELSE turnTimer
            /\ state' = IF ~HasPlayer(g0, Owner(c)) THEN addPlayer(g0, Owner(c)) ELSE g0
            /\ evictTimers' = IF isNew THEN evictTimers ELSE Attached(evictTimers)
    /\ UNCHANGED <<rollTimers, rolls, ticks, asyncVars, fnVars, lobbyVars, closed4001,
                   wsClosed, finishTimers, graceTimers,
                   tickVars, staleFinish>>

\* ws.on('close') (544-558): the peer went away, or the close the server
\* asked for is done.  The writer of the socket's user is dropped; the
\* timeout is set when that leaves the room without one.
SocketClose(c) ==
    /\ c \notin wsClosed
    /\ wsClosed' = wsClosed \cup {c}
    /\ IF c \in wsUserId /\ GameCode \in games
       THEN /\ clients' = clients \ {Owner(c)}
            /\ IF clients' = {}
               THEN /\ Len(evictTimers) < MaxEvictTimers
                    /\ evictTimers' = Append(evictTimers, EvictTimer)
               ELSE evictTimers' = evictTimers
       ELSE UNCHANGED <<clients, evictTimers>>
    /\ UNCHANGED <<games, state, turnTimer, wsUserId, rollTimers, rolls, ticks,
                   asyncVars, fnVars, lobbyVars, getUserPending, closed4001,
                   finishTimers, graceTimers,
                   tickVars, staleFinish>>

\* What the oldest pending timeout finds: game.clients of the room it was set for.
EvictFindsNoWriter == Head(evictTimers).orphan \/ clients = {}

\* The 60 s timeout fires (551-556).
SocketEvictTimeout ==
    /\ evictTimers # <<>>
    /\ IF EvictFindsNoWriter
       THEN /\ games' = {}
            /\ state' = NoGame
            /\ clients' = {}
            /\ turnTimer' = FALSE
            /\ evictTimers' = Orphaned(Tail(evictTimers))
       ELSE /\ evictTimers' = Tail(evictTimers)
            /\ UNCHANGED <<games, state, clients, turnTimer>>
    /\ UNCHANGED <<wsUserId, rollTimers, rolls, ticks, asyncVars, fnVars, lobbyVars,
                   getUserPending, closed4001, wsClosed, finishTimers, graceTimers,
                   tickVars, staleFinish>>

InitSocket == ServerStart /\ AuxStart

NextSocket ==
    \/ \E c \in Conns : SocketAuthFrame(c)
    \/ \E c \in Conns : SocketAuthFailure(c)
    \/ \E c \in Conns : SocketAuthSuccess(c)
    \/ \E c \in Conns : SocketClose(c)
    \/ SocketEvictTimeout

SpecSocket == InitSocket /\ [][NextSocket]_vars

\* C21: a socket whose AUTH was answered with AUTH_FAILURE and close 4001 does
\* not become authenticated: the rejection itself adds no player, registers no
\* writer and sets no ws.userId, and the socket has no ws.userId afterwards.
C21_RejectedTokenNeverAuthenticates ==
    /\ [](\A c \in closed4001 : c \notin wsUserId)
    /\ [][\A c \in Conns : SocketAuthFailure(c) =>
            state' = state /\ clients' = clients /\ wsUserId' = wsUserId]_vars

-----------------------------------------------------------------------------
\* C23: an empty-room timeout removes a room from the registry only if it was
\* set for that room and no writer was registered in the room since it was set
\* (so not before a full grace period has passed since the last detach).
C23_ReattachCancelsEviction ==
    [][(SocketEvictTimeout /\ GameCode \in games /\ games' = {})
        => (~Head(evictTimers).attached /\ ~Head(evictTimers).orphan)]_vars

-----------------------------------------------------------------------------
\* The timeouts of Node fire: a pending removal of handleGameFinish is run.
SpecRoomFair == SpecRoom /\ WF_vars(server_FinishTimeout)

-----------------------------------------------------------------------------
(* The sockets of part_002 one by one.  A user may hold several sockets     *)
(* (tabs, or a reconnect the server sees before the close of the old one);  *)
(* game.clients and game.reconnectTimers are keyed by user id, so a second  *)
(* close of the same user overwrites the timeout the map holds without      *)
(* clearing it.  The grace timeouts of a user all run 30 s, so they fire in *)
(* the order they were set and the one the map holds is the last.           *)
(***************************************************************************)

MaxSockets == 5
MaxGraceTimers == 2

Sockets == 1..MaxSockets

\* clearTimeout(game.reconnectTimers.get(userId)); reconnectTimers.delete(userId)
GraceCleared(t) ==
    [pending |-> IF t.held THEN t.pending - 1 ELSE t.pending, held |-> FALSE]

\* reconnectTimers.set(userId, setTimeout(...))
GraceSet(t) == [pending |-> t.pending + 1, held |-> TRUE]

\* The oldest timeout of the user fires; the map is not touched.
GraceFired(t) == [pending |-> t.pending - 1, held |-> t.held /\ t.pending > 1]

WasDisconnected(g, u) == HasPlayer(g, u) /\ g.players[FindPlayer(g, u)].disconnected

\* action AUTH with a token the identity service accepts (part_002 80-114).
GraceAuth(c) ==
    /\ c \notin wsClosed
    /\ GameCode \in games
    /\ LET u == Owner(c)
           back == WasDisconnected(state, u)
           g == IF back THEN handlePlayerReconnect_006(state, u)
                ELSE IF ~HasPlayer(state, u) THEN addPlayer_006(state, u)
                ELSE state
       IN /\ state' = g
          /\ graceTimers' = IF back
                            THEN [graceTimers EXCEPT ![u] = GraceCleared(@)]
                            ELSE graceTimers
          /\ clients' = clients \cup {u}
          /\ IF FullInSetup(g)
             THEN startTimers < MaxStartTimers /\ startTimers' = startTimers + 1
             ELSE startTimers' = startTimers
    /\ wsUserId' = wsUserId \cup {c}
    /\ UNCHANGED <<games, turnTimer, rollTimers, rolls, ticks, asyncVars, fnVars,
                   authPending, advanceTimers, reconnectTimers, getUserPending,
                   closed4001, wsClosed, finishTimers, evictTimers,
                   tickVars, staleFinish>>

\* ws.on('close') (part_002 170-192)
GraceClose(c) ==
    /\ c \notin wsClosed
    /\ wsClosed' = wsClosed \cup {c}
    /\ IF c \in wsUserId /\ GameCode \in games
       THEN /\ graceTimers[Owner(c)].pending < MaxGraceTimers
            /\ clients' = clients \ {Owner(c)}
            /\ state' = handlePlayerDisconnect_006(state, Owner(c))
            /\ graceTimers' = [graceTimers EXCEPT ![Owner(c)] = GraceSet(@)]
       ELSE UNCHANGED <<clients, state, graceTimers>>
    /\ UNCHANGED <<games, turnTimer, wsUserId, rollTimers, rolls, ticks, asyncVars, fnVars,
                   lobbyVars, getUserPending, closed4001, finishTimers, evictTimers,
                   tickVars, staleFinish>>

\* The grace period of a timeout runs out (part_002 180-189): leaveGame, and
\* handleGameFinish if that ends the game.
GraceTimeout(u) ==
    /\ graceTimers[u].pending > 0
    /\ graceTimers' = [graceTimers EXCEPT ![u] = GraceFired(@)]
    /\ IF GameCode \in games
       THEN LET g == leaveGame_006(state, u) IN
            /\ state' = g
            /\ turnTimer' = Cleared(turnTimer, g)
            /\ Scheduled(finishTimers, g) <= MaxFinishTimers
            /\ finishTimers' = Scheduled(finishTimers, g)
       ELSE UNCHANGED <<state, turnTimer, finishTimers>>
    /\ UNCHANGED <<games, clients, wsUserId, rollTimers, rolls, ticks, asyncVars, fnVars,
                   lobbyVars, getUserPending, closed4001, wsClosed, evictTimers,
                   tickVars, staleFinish>>

\* The room as the connection handler makes it, nobody seated yet.
InitGrace ==
    /\ games = {GameCode}
    /\ \E max_players \in {2, 4} : state = createNewGame_006(1, "tournament", max_players)
    /\ clients = {}
    /\ wsUserId = {}
    /\ turnTimer = FALSE
    /\ rollTimers = [u \in Users |-> 0]
    /\ AuxStart

NextGrace ==
    \/ \E c \in Sockets : GraceAuth(c)
    \/ \E c \in Sockets : GraceClose(c)
    \/ \E u \in Users : GraceTimeout(u)
    \/ AutoStart_002
    \/ server_FinishTimeout

SpecGrace == InitGrace /\ [][NextGrace]_vars

\* C24: an AUTH that finds its user disconnected leaves no grace timeout of
\* that user pending, and a grace timeout removes a user only while the user
\* is marked disconnected and has no socket registered.
C24_ReconnectCancelsGrace ==
    [][/\ \A c \in Sockets :
            (GraceAuth(c) /\ WasDisconnected(state, Owner(c)))
            => graceTimers'[Owner(c)].pending = 0
       /\ \A u \in Users :
            (GraceTimeout(u) /\ state' # state)
            => (WasDisconnected(state, u) /\ u \notin clients)]_vars

-----------------------------------------------------------------------------
(* The rule engine of part_007 under the outcomes of persistence.  Every    *)
(* append of a call is taken to end the same way: the row is stored, the    *)
(* insert answers with an error, or it throws.  A call whose append does    *)
(* not return to it stops where it awaited the append.                      *)
(***************************************************************************)

Outcomes == {"stored", "error", "throws"}

\* logTurnActivity with a slip: an insert that throws is not caught.
logTurnActivityUncaught(tournamentId, outcome) ==
    IF tournamentId = NoTournament THEN TRUE
    ELSE CASE outcome = "stored" -> TRUE
           [] outcome = "error" -> TRUE
           [] outcome = "throws" -> FALSE

\* logTurnActivity (part_007 113-129) after the push on turn_history: whether
\* it returns to its caller.  The insert is made for tournament rooms only; an
\* error in the answer is logged, an exception is caught and logged.
logTurnActivity(tournamentId, outcome) ==
    IF tournamentId = NoTournament THEN TRUE
    ELSE CASE outcome = "stored" -> TRUE
           [] outcome = "error" -> TRUE
           [] outcome = "throws" -> TRUE

\* movePiece: its first append is the one of line 320.
movePieceUnder(g, playerId, pieceId, outcome) ==
    IF ~MoveAccepted(g, playerId, pieceId) THEN g
    ELSE IF ~OwnsPiece(Current(g), pieceId) THEN movePiece(g, playerId, pieceId)
    ELSE IF logTurnActivity(g.tournamentId, outcome) THEN movePiece(g, playerId, pieceId)
    ELSE movePieceBegin(g, playerId, pieceId)

\* leaveGame: its first append is the one of line 398.
leaveGameUnder(g, playerId, outcome) ==
    IF ~HasPlayer(g, playerId) THEN g
    ELSE LET i == FindPlayer(g, playerId) IN
         IF g.players[i].isRemoved THEN g
         ELSE IF logTurnActivity(g.tournamentId, outcome) THEN leaveGame(g, playerId)
         ELSE [g EXCEPT !.players[i].isRemoved = TRUE]

\* handleMissedTurn: its first append is the one of line 384.
handleMissedTurnUnder(g, outcome) ==
    IF Len(g.players) = 0 \/ g.gameStatus # "Playing" THEN g
    ELSE IF logTurnActivity(g.tournamentId, outcome) THEN handleMissedTurn(g)
    ELSE [g EXCEPT !.players[g.currentPlayerIndex + 1].inactiveTurns = @ + 1]

-----------------------------------------------------------------------------
\* The colours of the seats, in seat order.
SeatColors(g) == [i \in 1..Len(g.players) |-> g.players[i].color]

\* C26: while the game is Playing, playerOrder is the sequence of the colours
\* of the seats; and once the game has left Setup neither playerOrder nor the
\* number and colours of the seats change.
C26_PlayerOrderIsFixedAtStart ==
    /\ [](state.gameStatus = "Playing" => state.playerOrder = SeatColors(state))
    /\ [][state.gameStatus # "Setup"
            => /\ state'.playerOrder = state.playerOrder
               /\ SeatColors(state') = SeatColors(state)]_vars

\* A room of four was started with fewer seats taken, and a user who has no
\* seat has authenticated since: the room has a seat and a colour to give.
C26_Witness ==
    /\ state.gameStatus = "Playing"
    /\ Len(state.players) < state.max_players
    /\ \E u \in clients : ~HasPlayer(state, u)
    /\ state.playerOrder = SeatColors(state)

-----------------------------------------------------------------------------
\* C27: gameStatus changes only from Setup to Playing and from Playing to
\* Finished.
C27_StatusFollowsLifecycle ==
    [][state'.gameStatus # state.gameStatus
         => \/ state.gameStatus = "Setup" /\ state'.gameStatus = "Playing"
            \/ state.gameStatus = "Playing" /\ state'.gameStatus = "Finished"]_vars

-----------------------------------------------------------------------------
(* Rooms in play whose clients send ROLL_DICE and MOVE_PIECE only while the *)
(* game is Playing: every roll callback that fires was set during play.     *)

RollDiceInPlay(u) == state.gameStatus = "Playing" /\ RollDice(u, MaxRolls)

NextCallback ==
    \/ \E u \in Users : RollDiceInPlay(u)
    \/ \E u \in Users : CompleteRollTimer(u, Faces)
    \/ \E u \in Users, pieceId \in PieceIds : MovePieceInPlay(u, pieceId)
    \/ \E u \in Users : LeaveGame(u)
    \/ GameLoopStop
    \/ GameLoopCountdown
    \/ GameLoopMissedTurn

SpecCallback == InitPlay /\ [][NextCallback]_vars

\* C28: a roll-completion callback that was set while the game was Playing and
\* fires when it is Finished changes nothing in the game record.
C28_CallbacksInertAfterFinish ==
    [][\A u \in Users :
         (CompleteRollTimer(u, Faces) /\ state.gameStatus = "Finished")
         => state' = state]_vars

-----------------------------------------------------------------------------
\* What the server does by itself: the roll callbacks and the one-second loop.
\* Node runs a timer that is due; no client is bound to send anything.
ServerSteps ==
    \/ \E u \in Users : CompleteRollTimer(u, Faces)
    \/ GameLoopStop
    \/ GameLoopCountdown
    \/ GameLoopMissedTurn

SpecPlayFair == SpecPlay /\ WF_vars(ServerSteps)

\* The completed roll left the player to play without a legal move.
NoLegalMove(g) ==
    /\ g.gameStatus = "Playing"
    /\ g.diceValue # null
    /\ ~g.isRolling
    /\ g.movablePieces = {}

\* C29: after a completed roll without a legal move the server by itself
\* eventually clears the dice and passes the seat on.
C29_NoMoveRollPassesSeat ==
    \A i \in 0..(NumUsers - 1) :
        (NoLegalMove(state) /\ state.currentPlayerIndex = i)
        ~> (state.diceValue = null /\ state.currentPlayerIndex # i)

-----------------------------------------------------------------------------
\* The pieces of every seat.
PiecesOf(g) == [i \in 1..Len(g.players) |-> g.players[i].pieces]

\* A movePiece of the player to play is parked on its turn-log append: the
\* roll it spends has been used.
MoveParked == \E n \in 1..Len(suspended) : suspended[n].c = state.currentPlayerIndex + 1

\* C30: one completed roll permits one move: a MOVE_PIECE that arrives while
\* a movePiece of the same roll is suspended on its append moves no piece.
C30_OneMovePerRoll ==
    [][\A u \in Users, pieceId \in PieceIds :
         (AsyncMovePiece(u, pieceId) /\ MoveParked)
         => PiecesOf(state') = PiecesOf(state)]_vars

-----------------------------------------------------------------------------
\* The data-model invariants of a game g that other handlers rely on.
NoSharedUnsafeCell(g) ==
    \A cell \in MainPath \ SAFE_SPOTS : Cardinality(ColoursOn(g, cell)) <= 1

DiceHasMovableSet(g) ==
    IF g.diceValue # null
    THEN g.movablePieces = calculateMovablePieces(Current(g), g.diceValue)
    ELSE g.movablePieces = {}

CurrentSeatIsActive(g) ==
    g.gameStatus = "Playing" => ~Current(g).hasFinished /\ ~Current(g).isRemoved

\* C31: while a call of the rule engine is suspended on a persistence append,
\* the game that other handlers see has no non-safe main-path cell shared by
\* two colours, shows a dice value only with the movable set of the current
\* player, and has a current seat that is neither removed nor finished while
\* Playing.
C31_InvariantsHoldAtSuspension ==
    suspended # <<>> =>
        /\ NoSharedUnsafeCell(state)
        /\ DiceHasMovableSet(state)
        /\ CurrentSeatIsActive(state)

-----------------------------------------------------------------------------
\* C39: a removal timeout of handleGameFinish that takes a room out of the
\* registry was set for that room, never for a room that had left the
\* registry before this one was made.
C39_EvictionRemovesOwnRoom ==
    [][(server_FinishTimeout /\ GameCode \in games /\ games' = {}) => staleFinish = 0]_vars

-----------------------------------------------------------------------------
(* The game loop of part_003 with handleMissedTurn taken in two steps.       *)
(* In a tournament room logTurnActivity awaits the insert, so the interval   *)
(* callback gives up the event loop at part_007:384 and the interval goes on *)
(* firing every second; the awaits after that one are taken to resume at     *)
(* once.  In a manual room nothing is awaited and the call runs through.     *)

MaxMissedCalls == 2

\* handleMissedTurn up to its first await (part_007:379-384).
handleMissedTurnBegin(g) ==
    IF Len(g.players) = 0 \/ g.gameStatus # "Playing" THEN g
    ELSE [g EXCEPT !.players[g.currentPlayerIndex + 1].inactiveTurns = @ + 1]

\* handleMissedTurn from line 386 on; c is the seat currentPlayer was bound to.
handleMissedTurnRest(g, c) ==
    IF g.players[c].inactiveTurns >= MAX_INACTIVE_TURNS
    THEN leaveGame(g, g.players[c].playerId)
    ELSE advanceTurn(g)

\* The interval callback with the clock at 0.
GameLoopMissedBegin ==
    /\ turnTimer
    /\ LoopCounts(state)
    /\ state.turnTimeLeft <= 0
    /\ IF state.tournamentId # NoTournament
       THEN /\ Len(missedCalls) < MaxMissedCalls
            /\ state' = handleMissedTurnBegin(state)
            /\ missedCalls' = Append(missedCalls, state.currentPlayerIndex + 1)
       ELSE /\ state' = handleMissedTurn(state)
            /\ missedCalls' = missedCalls
    /\ UNCHANGED <<games, clients, turnTimer, wsUserId, rollTimers, rolls, ticks,
                   asyncVars, fnVars, lobbyVars, getUserPending, closed4001, wsClosed,
                   finishTimers, evictTimers, graceTimers, strayTicks, staleFinish>>

\* The insert of the n-th suspended call settles.
GameLoopMissedResume(n) ==
    /\ n \in 1..Len(missedCalls)
    /\ state' = handleMissedTurnRest(state, missedCalls[n])
    /\ missedCalls' = SubSeq(missedCalls, 1, n - 1)
                        \o SubSeq(missedCalls, n + 1, Len(missedCalls))
    /\ UNCHANGED <<games, clients, turnTimer, wsUserId, rollTimers, rolls, ticks,
                   asyncVars, fnVars, lobbyVars, getUserPending, closed4001, wsClosed,
                   finishTimers, evictTimers, graceTimers, strayTicks, staleFinish>>

NextTick ==
    \/ GameLoopStop
    \/ GameLoopCountdown
    \/ GameLoopMissedBegin
    \/ \E n \in 1..MaxMissedCalls : GameLoopMissedResume(n)

SpecTick == InitClock /\ [][NextTick]_vars

\* C32: an expiry of the turn clock is handled once: the interval callback
\* never starts handleMissedTurn while an earlier call of it is still waiting
\* for its turn-log append.
C32_ExpiryHandledOnce ==
    [][Len(missedCalls') > Len(missedCalls) => missedCalls = <<>>]_vars

-----------------------------------------------------------------------------
(* The clock of part_003 run down in full: the interval callback with time   *)
(* left, as often as it fires.  Clients roll and move as they like, or not   *)
(* at all; the timers of the server fire.                                    *)

GameLoopTick ==
    /\ turnTimer
    /\ LoopCounts(state)
    /\ state.turnTimeLeft > 0
    /\ state' = [state EXCEPT !.turnTimeLeft = @ - 1]
    /\ UNCHANGED <<games, clients, turnTimer, wsUserId, rollTimers, rolls, ticks,
                   asyncVars, fnVars, sessionVars, lobbyVars>>

TimerSteps ==
    \/ \E u \in Users : CompleteRollTimer(u, Faces)
    \/ GameLoopStop
    \/ GameLoopTick
    \/ GameLoopMissedTurn

NextIdle ==
    \/ \E u \in Users : RollDice(u, MaxRolls)
    \/ \E u \in Users, pieceId \in PieceIds : MovePiece(u, pieceId)
    \/ TimerSteps

SpecIdle == InitPlay /\ [][NextIdle]_vars /\ WF_vars(TimerSteps)

\* C33: whoever holds the seat of a game in play, the seat eventually goes to
\* somebody else or the game is Finished, whether or not the clients send
\* anything.
C33_IdlePlayerLosesSeat ==
    \A i \in 0..(NumUsers - 1) :
        (state.gameStatus = "Playing" /\ state.currentPlayerIndex = i)
        ~> (state.currentPlayerIndex # i \/ state.gameStatus = "Finished")

-----------------------------------------------------------------------------
(* The turn countdown of server.js with timerTick taken step by step.        *)
(* Every room of server.js is a tournament room, so handleMissedTurn gives   *)
(* up the event loop at its inserts.  Two of its awaits are taken as points  *)
(* where other callbacks run: the first one (game.js 313, inactiveTurns      *)
(* counted, nothing else done) and the last one of a call that ends the game *)
(* (game.js 335, the game Finished, timerTick not yet back at line 371).     *)
(* missedCalls holds the seat of a call waiting at the first and 0 for a     *)
(* call waiting at the last.  The action handlers run as in SpecRoom.        *)

\* Pending timerTick timeouts of the room: the one game.turnTimer holds and
\* those it no longer holds.
PendingTicks == (IF turnTimer THEN 1 ELSE 0) + strayTicks

\* game.turnTimer = setTimeout(timerTick, 1000) with no clearTimeout before it:
\* a timeout the handle still named (held) is pending on.
Strayed(n, held) == IF held THEN n + 1 ELSE n

\* timerTick with time left after the decrement: the timeout that fired was the
\* one game.turnTimer held, and the next one is stored in its place.
server_TickCountdown ==
    /\ turnTimer
    /\ GameCode \in games
    /\ state.gameStatus = "Playing"
    /\ state.turnTimeLeft - 1 > 0
    /\ ticks < MaxTicks
    /\ state' = [state EXCEPT !.turnTimeLeft = @ - 1]
    /\ ticks' = ticks + 1
    /\ strayTicks' = Strayed(strayTicks, FALSE)
    /\ turnTimer' = TRUE
    /\ UNCHANGED <<games, clients, wsUserId, rollTimers, rolls, asyncVars, fnVars,
                   lobbyVars, getUserPending, closed4001, wsClosed, finishTimers,
                   evictTimers, graceTimers, missedCalls, staleFinish>>

\* timerTick that finds no room or a game not in play returns at once.
server_TickIdle ==
    /\ turnTimer
    /\ GameCode \notin games \/ state.gameStatus # "Playing"
    /\ turnTimer' = FALSE
    /\ UNCHANGED <<games, state, clients, wsUserId, rollTimers, rolls, ticks, asyncVars,
                   fnVars, lobbyVars, getUserPending, closed4001, wsClosed, finishTimers,
                   evictTimers, graceTimers, tickVars, staleFinish>>

\* handleMissedTurn up to its first await (game.js 308-313).
game_handleMissedTurnBegin(g) ==
    IF Len(g.players) = 0 \/ g.gameStatus # "Playing" THEN g
    ELSE LET c == g.currentPlayerIndex + 1 IN
         [g EXCEPT !.players[c].inactiveTurns = @ + 1,
                   !.message = Msg(" missed their turn.", g.players[c].playerId, NoOne)]

\* handleMissedTurn from line 315 on; c is the seat currentPlayer was bound to.
game_handleMissedTurnRest(g, c) ==
    IF g.players[c].inactiveTurns >= MAX_INACTIVE_TURNS
    THEN game_leaveGame(g, g.players[c].playerId)
    ELSE game_advanceTurn(g)

\* timerTick that spends the last second: into handleMissedTurn, which waits
\* for its insert.  No timeout is pending for this callback any more.
server_TickExpiryBegin ==
    /\ turnTimer
    /\ GameCode \in games
    /\ state.gameStatus = "Playing"
    /\ state.turnTimeLeft - 1 <= 0
    /\ Len(missedCalls) < MaxMissedCalls
    /\ turnTimer' = FALSE
    /\ state' = game_handleMissedTurnBegin([state EXCEPT !.turnTimeLeft = @ - 1])
    /\ missedCalls' = Append(missedCalls, state.currentPlayerIndex + 1)
    /\ UNCHANGED <<games, clients, wsUserId, rollTimers, rolls, ticks, asyncVars, fnVars,
                   lobbyVars, getUserPending, closed4001, wsClosed, finishTimers,
                   evictTimers, graceTimers, strayTicks, staleFinish>>

Without(calls, n) == SubSeq(calls, 1, n - 1) \o SubSeq(calls, n + 1, Len(calls))

\* The first insert settles.  A call that ends the game waits again, at the
\* insert of the winner; any other runs to the end of timerTick, where
\* handleGameFinish or startTurnTimer is called (server.js 371-376).
server_TickExpiryResume(n) ==
    /\ n \in 1..Len(missedCalls)
    /\ missedCalls[n] > 0
    /\ LET g == game_handleMissedTurnRest(state, missedCalls[n]) IN
       IF g.gameStatus = "Finished" /\ state.gameStatus # "Finished"
       THEN /\ state' = g
            /\ missedCalls' = [missedCalls EXCEPT ![n] = 0]
            /\ UNCHANGED <<turnTimer, finishTimers>>
       ELSE /\ state' = server_startTurnTimer(g)
            /\ turnTimer' = Cleared(Rearmed(turnTimer, g), g)
            /\ Scheduled(finishTimers, g) <= MaxFinishTimers
            /\ finishTimers' = Scheduled(finishTimers, g)
            /\ missedCalls' = Without(missedCalls, n)
    /\ UNCHANGED <<games, clients, wsUserId, rollTimers, rolls, ticks, asyncVars, fnVars,
                   lobbyVars, getUserPending, closed4001, wsClosed, evictTimers,
                   graceTimers, strayTicks, staleFinish>>

\* The last insert of a call that ended the game settles: timerTick goes on
\* at line 371 and calls handleGameFinish.
server_TickExpiryEnd(n) ==
    /\ n \in 1..Len(missedCalls)
    /\ missedCalls[n] = 0
    /\ turnTimer' = Cleared(turnTimer, state)
    /\ Scheduled(finishTimers, state) <= MaxFinishTimers
    /\ finishTimers' = Scheduled(finishTimers, state)
    /\ missedCalls' = Without(missedCalls, n)
    /\ UNCHANGED <<games, state, clients, wsUserId, rollTimers, rolls, ticks, asyncVars,
                   fnVars, lobbyVars, getUserPending, closed4001, wsClosed, evictTimers,
                   graceTimers, strayTicks, staleFinish>>

\* Rooms in play with a second left on the clock; the player to play has let
\* no turn or four turns pass.
TimerRooms ==
    {[b EXCEPT !.turnTimeLeft = 1, !.players[b.currentPlayerIndex + 1].inactiveTurns = n] :
        b \in {RoomCapture, RoomThree}, n \in {0, MAX_INACTIVE_TURNS - 1}}

InitTimer ==
    /\ state \in TimerRooms
    /\ games = {GameCode}
    /\ clients = {state.players[i].playerId : i \in 1..Len(state.players)}
    /\ wsUserId = {state.players[i].playerId : i \in 1..Len(state.players)}
    /\ turnTimer = TRUE
    /\ rollTimers = [u \in Users |-> 0]
    /\ AuxStart

NextTimer ==
    \/ server_TickCountdown
    \/ server_TickIdle
    \/ server_TickExpiryBegin
    \/ \E n \in 1..MaxMissedCalls : server_TickExpiryResume(n)
    \/ \E n \in 1..MaxMissedCalls : server_TickExpiryEnd(n)
    \/ \E u \in Users : server_RollDice(u)
    \/ \E u \in Users : server_CompleteRollTimer(u)
    \/ \E u \in Users, pieceId \in PieceIds : server_MovePiece(u, pieceId)
    \/ \E u \in Users : server_LeaveGame(u)

SpecTimer == InitTimer /\ [][NextTimer]_vars

FinishingCall == \E n \in 1..Len(missedCalls) : missedCalls[n] = 0

-----------------------------------------------------------------------------
\* C35: first connections that overlap make one room for the code: an AUTH
\* handler never stores a new room under a code whose room has a registered
\* writer.
C35_OneRoomPerCode ==
    [][\A c \in Conns : (GateAuthRoom(c) /\ GameCode \in games) => clients = {}]_vars

-----------------------------------------------------------------------------
(* advanceTurn on its own: rooms in play as its callers hand them over *)

\* movePiece and completeRoll call advanceTurn for the seat that played,
\* handleMissedTurn for the seat that let the clock run out (a roll may be under
\* way) and leaveGame for the seat that has just been removed.  A room in play
\* keeps two active players or more, and no player has finished before the game.
AdvanceInputs ==
    {g \in {[b EXCEPT !.players = [i \in 1..Len(b.players) |->
                          [b.players[i] EXCEPT !.isRemoved = (i = gone),
                                               !.consecutiveSixes = sixes]],
                      !.currentPlayerIndex = cur % Len(b.players),
                      !.diceValue = d,
                      !.movablePieces =
                          IF d = null THEN {}
                          ELSE calculateMovablePieces(b.players[(cur % Len(b.players)) + 1], d),
                      !.isRolling = (rolling /\ d = null),
                      !.turnTimeLeft = left] :
                b \in {BoardCapture, BoardThree},
                gone \in 0..3, cur \in 0..2, d \in {null, 2, 6},
                rolling \in BOOLEAN, sixes \in 0..2, left \in {0, 17}} :
        Cardinality(ActivePlayers(g)) >= 2}

InitAdvance ==
    /\ state \in AdvanceInputs
    /\ games = {GameCode}
    /\ clients = {state.players[i].playerId : i \in 1..Len(state.players)}
    /\ wsUserId = clients
    /\ turnTimer = TRUE
    /\ rollTimers = [u \in Users |-> 0]
    /\ AuxStart

\* retInfo holds the room as advanceTurn leaves it; state is the room it was given.
ApplyAdvanceTurn ==
    /\ retInfo = <<>>
    /\ retInfo' = <<advanceTurn(state)>>
    /\ UNCHANGED <<games, state, clients, turnTimer, wsUserId, rollTimers, rolls, ticks,
                   asyncVars, argPiece, argDice, lobbyVars, sessionVars>>

SpecAdvance == InitAdvance /\ [][ApplyAdvanceTurn]_vars

\* C36: advanceTurn, given a room in play with an active player, hands the seat to
\* the first player after the current one, cyclically, who is neither finished nor
\* removed, clears the dice, the movable set and the rolling flag, sets the clock
\* to 30, zeroes the six counter of the new seat, and changes no piece and no
\* other field of any player.
C36_AdvanceTurnPassesSeat ==
    retInfo # <<>> =>
        LET g == state
            r == retInfo[1]
        IN (g.gameStatus = "Playing" /\ ActivePlayers(g) # {}) =>
              /\ r.gameStatus = "Playing"
              /\ r.currentPlayerIndex = NextActiveSeat(g)
              /\ r.diceValue = null
              /\ r.movablePieces = {}
              /\ ~r.isRolling
              /\ r.turnTimeLeft = 30
              /\ r.players = [i \in 1..Len(g.players) |->
                                 [g.players[i] EXCEPT !.consecutiveSixes =
                                     IF i = NextActiveSeat(g) + 1 THEN 0 ELSE @]]

\* advanceTurn was applied with the dice on the table to a room whose next player
\* had left, and passed the seat over that player.
C36_Witness ==
    /\ retInfo # <<>>
    /\ state.gameStatus = "Playing"
    /\ state.diceValue = 6
    /\ state.players[1].consecutiveSixes = 2
    /\ state.currentPlayerIndex = 2
    /\ state.players[1].isRemoved
    /\ retInfo[1].currentPlayerIndex = 1

-----------------------------------------------------------------------------
\* C37: a ROLL_DICE or MOVE_PIECE frame processed while the game is in Setup or
\* Finished changes no piece, leaves isRolling false and leaves diceValue as it was.
C37_NoPlayOutsidePlaying ==
    [][(/\ games # {}
        /\ state.gameStatus \in {"Setup", "Finished"}
        /\ \/ \E u \in Users : RollDice(u, MaxRolls)
           \/ \E u \in Users, pieceId \in PieceIds : MovePiece(u, pieceId))
       => (/\ \A i \in 1..Len(state.players) : state'.players[i].pieces = state.players[i].pieces
           /\ ~state'.isRolling
           /\ state'.diceValue = state.diceValue)]_vars

-----------------------------------------------------------------------------
(* One piece of each colour walked round the board *)

\* A piece changes position in two places only: movePiece assigns it what
\* getNewPositionInfo returns, and a capture sends it back Home.
InitWalk ==
    /\ ServerStart
    /\ suspended = <<>> /\ base = NoGame /\ invoked = <<>>
    /\ rolls = 0 /\ ticks = 0
    /\ argPiece \in {p \in PieceInputs : p.state = "Home"}
    /\ argDice = 1
    /\ retInfo = <<>>
    /\ startTimers = 0 /\ authPending = {}
    /\ advanceTimers = 0 /\ reconnectTimers = {}
    /\ SessionStart

WalkUnchanged ==
    UNCHANGED <<games, state, clients, turnTimer, wsUserId, rollTimers, rolls, ticks,
                asyncVars, lobbyVars, sessionVars>>

\* movePiece, as far as the moved piece goes: the dice value diceValue is on the table.
WalkPiece(diceValue) ==
    LET info == getNewPositionInfo(argPiece, diceValue) IN
    /\ argDice' = diceValue
    /\ retInfo' = <<info>>
    /\ argPiece' = [argPiece EXCEPT !.position = info.position, !.state = info.state]
    /\ WalkUnchanged

\* movePiece of an opponent landing on the piece's cell.
WalkCaptured ==
    /\ argPiece.state = "Active"
    /\ argPiece.position < FINISH_POSITION_START
    /\ argPiece.position \notin SAFE_SPOTS
    /\ argPiece' = [argPiece EXCEPT !.state = "Home", !.position = -1]
    /\ retInfo' = <<>>
    /\ UNCHANGED argDice
    /\ WalkUnchanged

NextWalk ==
    \/ \E diceValue \in Faces : WalkPiece(diceValue)
    \/ WalkCaptured

SpecWalk == InitWalk /\ [][NextWalk]_vars

\* The main-path cell that follows the last one of the colour's lap.
CellAfterLap(color) ==
    CASE color = "Green" -> 52 [] color = "Red" -> 13
      [] color = "Blue" -> 26 [] color = "Yellow" -> 39

\* Main-path cells between the colour's start and the cell p, p included.
CellsWalked(color, p) ==
    ((p - START_POSITIONS[color] + TOTAL_PATH_LENGTH) % TOTAL_PATH_LENGTH) + 1

OnMainPath(piece) == piece.state = "Active" /\ piece.position < FINISH_POSITION_START

\* C38: no piece laps the board.  A piece never stands on the main-path cell after
\* the last cell of its colour's lap (52 Green, 13 Red, 26 Blue, 39 Yellow) and has
\* walked at most 51 main-path cells since its start; a move from the main path
\* that reaches beyond the last cell of the lap takes the piece off the main path.
C38_NoPieceLapsBoard ==
    /\ [](OnMainPath(argPiece) =>
            /\ argPiece.position \in MainPath
            /\ argPiece.position # CellAfterLap(argPiece.color)
            /\ CellsWalked(argPiece.color, argPiece.position) <= 51)
    /\ [][\A diceValue \in Faces :
            (/\ WalkPiece(diceValue)
             /\ OnMainPath(argPiece)
             /\ CellsWalked(argPiece.color, argPiece.position) + diceValue > 51)
            => argPiece'.position >= FINISH_POSITION_START]_vars

\* A Red piece standing on the last cell of its lap was moved by a 6 and finished.
C38_Witness ==
    /\ argPiece.color = "Red"
    /\ argPiece.state = "Finished"
    /\ argPiece.position = 105
    /\ argDice = 6
    /\ retInfo = <<[position |-> 105, state |-> "Finished"]>>

-----------------------------------------------------------------------------
\* C40: a user who holds an open authenticated socket on the room is registered
\* as a writer, and the user's player is neither marked disconnected nor removed,
\* whatever other sockets of the same user were closed.
C40_OpenSocketStaysAttached ==
    \A c \in Sockets :
        (c \in wsUserId /\ c \notin wsClosed /\ GameCode \in games)
        => /\ Owner(c) \in clients
           /\ ~WasDisconnected(state, Owner(c))
           /\ HasPlayer(state, Owner(c)) => ~state.players[FindPlayer(state, Owner(c))].isRemoved

=============================================================================
